---- MODULE Spec2Model ----
(***************************************************************************)
(* Model of the macos-loginitems parser: the plist bookmark locator        *)
(* (loginitems_plist.rs), the document loop parse_loginitems, the Bookmark *)
(* decoder bookmark_data and the bundled-app registry reader               *)
(* loginitem_apps (loginitems.rs), and the scan of the users' directories  *)
(* parse_loginitems_system (parser.rs).  Spec is the behaviour of          *)
(* parse_loginitems, SpecApps that of loginitem_apps, SpecSystem that of   *)
(* parse_loginitems_system with the two calls it makes.                    *)
(*                                                                         *)
(* Bytes are numbers 0..255 and byte strings are sequences of bytes.       *)
(* A u32 is a pair <<hi, lo>> of 16-bit halves (value hi * 65536 + lo), so *)
(* that the full 32-bit range and its wrap-around are represented.         *)
(* A 64-bit value (u64, i64, f64) is the tuple of its 8 bytes, most        *)
(* significant first; an i32 is the tuple of its 4 bytes, most significant *)
(* first.  Strings are the byte sequences of their UTF-8 encoding.         *)
(***************************************************************************)
EXTENDS Integers, Sequences, FiniteSets, TLC

\* ------------------------------------------------------------------------
\* Bounds of the model
\* ------------------------------------------------------------------------

\* longest `$objects` array of a generated plist
MaxObjects == 2

\* longest table of contents of a generated bookmark
MaxToc == 2

\* directory entries per directory of the registry reader
MaxEntries == 2

\* ------------------------------------------------------------------------
\* Program constants
\* ------------------------------------------------------------------------

STRING_TYPE == 257
DATA_TYPE == 513
NUMBER_FOUR_BYTE == 771
NUMBER_EIGHT_BYTE == 772
DATE == 1024
BOOL_TRUE == 1281
ARRAY_TYPE == 1537
URL == 2305

TARGET_PATH == 4100
TARGET_CNID_PATH == 4101
TARGET_FLAGS == 4112
TARGET_CREATION_DATE == 4160
VOLUME_PATH == 8194
VOLUME_URL == 8197
VOLUME_NAME == 8208
VOLUME_UUID == 8209
VOLUME_SIZE == 8210
VOLUME_CREATION == 8211
VOLUME_FLAGS == 8224
VOLUME_ROOT == 8240
CONTAIN_FOLDER_INDEX == 49153
CREATOR_USERNAME == 49169
CREATOR_UID == 49170
CREATION_OPTIONS == 53264
LOCALIZED_NAME == 61463
SECURITY_EXTENSION == 61568

\* size_of::<u32>(), size_of::<u64>()
SizeU32 == 4
SizeU64 == 8

\* bookmark_header: 32 reserved bytes after the four u32 fields
filler_size == 32

\* parse_loginitems: expected data offset
book_data_offset == 48

\* parse_loginitems: the signature "book", 1802465122 = 27503 * 65536 + 28514
book_sig == <<27503, 28514>>

\* bookmark_data / bookmark_standard_data: size of the TOC offset field
toc_offset_size == 4

\* table_of_contents_data: size of one TOC record
record_size == 12

\* bookmark_target_flags: at most three flags
max_flag_size == 3

\* get_array_values: minimum size of a bookmark inside a dictionary
min_bookmark_size == 48

\* ------------------------------------------------------------------------
\* u32 arithmetic (pairs <<hi, lo>> of 16-bit halves)
\* ------------------------------------------------------------------------

Half == 256 * 256

U32(n) == <<n \div Half, n % Half>>

Lt32(a, b) == a[1] < b[1] \/ (a[1] = b[1] /\ a[2] < b[2])

Gt32(a, b) == Lt32(b, a)

\* a - b modulo 2^32
WrappingSub32(a, b) ==
    LET lo == a[2] - b[2]
        borrow == IF lo < 0 THEN 1 ELSE 0
        hi == a[1] - b[1] - borrow
    IN  <<(hi + 2 * Half) % Half, (lo + Half) % Half>>

\* k * a modulo 2^32, for a small factor k
WrappingMul32(k, a) ==
    LET lo == k * a[2]
        hi == k * a[1] + (lo \div Half)
    IN  <<hi % Half, lo % Half>>

MulOverflows32(k, a) == (k * a[1] + ((k * a[2]) \div Half)) >= Half

Inc32(a) == IF a[2] + 1 = Half THEN <<(a[1] + 1) % Half, 0>> ELSE <<a[1], a[2] + 1>>

\* a u32 used as a byte count against a slice of `len` bytes (len < 2^16)
FitsIn(count, len) == count[1] = 0 /\ count[2] <= len

\* ------------------------------------------------------------------------
\* nom number parsers
\* ------------------------------------------------------------------------

le_u32(b) == <<b[4] * 256 + b[3], b[2] * 256 + b[1]>>

be_u32(b) == <<b[1] * 256 + b[2], b[3] * 256 + b[4]>>

le_u16(b) == b[2] * 256 + b[1]

\* 64-bit values: the 8 bytes, most significant first
le_u64(b) == <<b[8], b[7], b[6], b[5], b[4], b[3], b[2], b[1]>>

le_i64(b) == <<b[8], b[7], b[6], b[5], b[4], b[3], b[2], b[1]>>

be_f64(b) == <<b[1], b[2], b[3], b[4], b[5], b[6], b[7], b[8]>>

le_i32(b) == <<b[4], b[3], b[2], b[1]>>

Zero64 == <<0, 0, 0, 0, 0, 0, 0, 0>>

Zero32 == <<0, 0, 0, 0>>

\* the rest of a slice after its first n bytes
Drop(s, n) == SubSeq(s, n + 1, Len(s))

\* the first n bytes of a slice
Prefix(s, n) == SubSeq(s, 1, n)

\* ------------------------------------------------------------------------
\* Results of the fallible functions: st is "ok", "err" (an Err value is
\* returned) or "panic" (an arithmetic overflow in a build that checks it)
\* ------------------------------------------------------------------------

Err == [st |-> "err"]

Panic == [st |-> "panic"]

\* ------------------------------------------------------------------------
\* std::str::from_utf8: is the byte sequence well-formed UTF-8
\* ------------------------------------------------------------------------

IsCont(b) == b >= 128 /\ b <= 191

RECURSIVE Utf8Valid(_)
Utf8Valid(s) ==
    IF s = <<>> THEN TRUE
    ELSE LET b == s[1]
             n == Len(s)
         IN  IF b < 128 THEN Utf8Valid(Drop(s, 1))
             ELSE IF b >= 194 /\ b <= 223
                  THEN n >= 2 /\ IsCont(s[2]) /\ Utf8Valid(Drop(s, 2))
             ELSE IF b >= 224 /\ b <= 239
                  THEN /\ n >= 3
                       /\ IF b = 224 THEN s[2] >= 160 /\ s[2] <= 191
                          ELSE IF b = 237 THEN s[2] >= 128 /\ s[2] <= 159
                          ELSE IsCont(s[2])
                       /\ IsCont(s[3])
                       /\ Utf8Valid(Drop(s, 3))
             ELSE IF b >= 240 /\ b <= 244
                  THEN /\ n >= 4
                       /\ IF b = 240 THEN s[2] >= 144 /\ s[2] <= 191
                          ELSE IF b = 244 THEN s[2] >= 128 /\ s[2] <= 143
                          ELSE IsCont(s[2])
                       /\ IsCont(s[3])
                       /\ IsCont(s[4])
                       /\ Utf8Valid(Drop(s, 4))
             ELSE FALSE

\* ------------------------------------------------------------------------
\* Leaf decoders of loginitems.rs
\* ------------------------------------------------------------------------

bookmark_data_type_string(standard_data) ==
    IF Utf8Valid(standard_data) THEN [st |-> "ok", val |-> standard_data] ELSE Err

bookmark_cnid(standard_data) ==
    IF Len(standard_data) >= SizeU64
    THEN [st |-> "ok", val |-> le_i64(Prefix(standard_data, SizeU64))]
    ELSE Err

bookmark_data_type_number_eight(standard_data) ==
    IF Len(standard_data) >= SizeU64
    THEN [st |-> "ok", val |-> le_i64(Prefix(standard_data, SizeU64))]
    ELSE Err

bookmark_data_type_number_four(standard_data) ==
    IF Len(standard_data) >= SizeU32
    THEN [st |-> "ok", val |-> le_i32(Prefix(standard_data, SizeU32))]
    ELSE Err

bookmark_data_type_date(standard_data) ==
    IF Len(standard_data) >= SizeU64
    THEN [st |-> "ok", val |-> be_f64(Prefix(standard_data, SizeU64))]
    ELSE Err

\* mutant of target_flags_loop: the loop stops only when the input is exhausted
RECURSIVE target_flags_loop_NoMax(_, _)
target_flags_loop_NoMax(input, array_flags) ==
    IF Len(input) < SizeU64 THEN Err
    ELSE LET data == Drop(input, SizeU64)
             flags == Append(array_flags, le_u64(Prefix(input, SizeU64)))
         IN  IF data = <<>>
             THEN [st |-> "ok", val |-> flags]
             ELSE target_flags_loop_NoMax(data, flags)

\* the loop of bookmark_target_flags
RECURSIVE target_flags_loop(_, _)
target_flags_loop(input, array_flags) ==
    IF Len(input) < SizeU64 THEN Err
    ELSE LET data == Drop(input, SizeU64)
             flags == Append(array_flags, le_u64(Prefix(input, SizeU64)))
         IN  IF data = <<>> \/ Len(flags) = max_flag_size
             THEN [st |-> "ok", val |-> flags]
             ELSE target_flags_loop(data, flags)

bookmark_target_flags(standard_data) == target_flags_loop(standard_data, <<>>)

\* mutant of array_loop: an offset is put in front of those read before it
RECURSIVE array_loop_Prepend(_, _)
array_loop_Prepend(input, array_offsets) ==
    IF Len(input) < SizeU32 THEN Err
    ELSE LET input_data == Drop(input, SizeU32)
             offsets == <<le_u32(Prefix(input, SizeU32))>> \o array_offsets
         IN  IF input_data = <<>>
             THEN [st |-> "ok", val |-> offsets]
             ELSE array_loop_Prepend(input_data, offsets)

\* the loop of bookmark_array
RECURSIVE array_loop(_, _)
array_loop(input, array_offsets) ==
    IF Len(input) < SizeU32 THEN Err
    ELSE LET input_data == Drop(input, SizeU32)
             offsets == Append(array_offsets, le_u32(Prefix(input, SizeU32)))
         IN  IF input_data = <<>>
             THEN [st |-> "ok", val |-> offsets]
             ELSE array_loop(input_data, offsets)

bookmark_array(standard_data) == array_loop(standard_data, <<>>)

\* ------------------------------------------------------------------------
\* Typed records of the heap
\* ------------------------------------------------------------------------

\* mutant of bookmark_standard_data: a payload that runs past the end of the
\* data is cut to the bytes that are there
bookmark_standard_data_Clamp(bookmark_data, toc_record, checks) ==
    LET offset == WrappingSub32(toc_record.data_offset, U32(toc_offset_size))
    IN  IF Lt32(toc_record.data_offset, U32(toc_offset_size)) /\ checks THEN Panic
        ELSE IF ~FitsIn(offset, Len(bookmark_data)) THEN Err
        ELSE LET input1 == Drop(bookmark_data, offset[2])
             IN  IF Len(input1) < 2 * SizeU32 THEN Err
                 ELSE LET standard_length == le_u32(Prefix(input1, SizeU32))
                          standard_data_type == le_u32(SubSeq(input1, SizeU32 + 1, 2 * SizeU32))
                          input3 == Drop(input1, 2 * SizeU32)
                      IN  [st |-> "ok",
                           val |-> [data_length |-> standard_length,
                                    data_type |-> standard_data_type,
                                    record_data |->
                                        IF FitsIn(standard_length, Len(input3))
                                        THEN Prefix(input3, standard_length[2])
                                        ELSE input3,
                                    record_type |-> toc_record.record_type]]

\* toc_record is [record_type, data_offset: u32]; checks = overflow checks on
bookmark_standard_data(bookmark_data, toc_record, checks) ==
    LET offset == WrappingSub32(toc_record.data_offset, U32(toc_offset_size))
    IN  IF Lt32(toc_record.data_offset, U32(toc_offset_size)) /\ checks THEN Panic
        ELSE IF ~FitsIn(offset, Len(bookmark_data)) THEN Err
        ELSE LET input1 == Drop(bookmark_data, offset[2])
             IN  IF Len(input1) < 2 * SizeU32 THEN Err
                 ELSE LET standard_length == le_u32(Prefix(input1, SizeU32))
                          standard_data_type == le_u32(SubSeq(input1, SizeU32 + 1, 2 * SizeU32))
                          input3 == Drop(input1, 2 * SizeU32)
                      IN  IF ~FitsIn(standard_length, Len(input3)) THEN Err
                          ELSE [st |-> "ok",
                                val |-> [data_length |-> standard_length,
                                         data_type |-> standard_data_type,
                                         record_data |-> Prefix(input3, standard_length[2]),
                                         record_type |-> toc_record.record_type]]

\* mutant of loginitem_data_loop: an element that is an array is followed by
\* the elements it refers to
RECURSIVE loginitem_data_loop_Nested(_, _, _, _, _)
loginitem_data_loop_Nested(data, array_offsets, record, checks, standard_data_vec) ==
    IF array_offsets = <<>> THEN [st |-> "ok", val |-> standard_data_vec]
    ELSE LET data_record == [record_type |-> record.record_type,
                             data_offset |-> Head(array_offsets)]
             results == bookmark_standard_data(data, data_record, checks)
             inner == IF results.st = "ok" /\ results.val.data_type = U32(ARRAY_TYPE)
                      THEN bookmark_array(results.val.record_data)
                      ELSE [st |-> "ok", val |-> <<>>]
             inner_data(k) ==
                 bookmark_standard_data(data, [record_type |-> record.record_type,
                                               data_offset |-> inner.val[k]], checks)
         IN  IF results.st # "ok" THEN [st |-> results.st]
             ELSE IF inner.st # "ok" THEN Err
             ELSE IF \E k \in 1..Len(inner.val) : inner_data(k).st # "ok" THEN Err
             ELSE loginitem_data_loop_Nested(data, Tail(array_offsets), record, checks,
                      Append(standard_data_vec, results.val)
                      \o [k \in 1..Len(inner.val) |-> inner_data(k).val])

RECURSIVE loginitem_data_loop(_, _, _, _, _)
loginitem_data_loop(data, array_offsets, record, checks, standard_data_vec) ==
    IF array_offsets = <<>> THEN [st |-> "ok", val |-> standard_data_vec]
    ELSE LET data_record == [record_type |-> record.record_type,
                             data_offset |-> Head(array_offsets)]
             results == bookmark_standard_data(data, data_record, checks)
         IN  IF results.st # "ok" THEN [st |-> results.st]
             ELSE loginitem_data_loop(data, Tail(array_offsets), record, checks,
                                      Append(standard_data_vec, results.val))

loginitem_data(data, array_offsets, record, checks) ==
    loginitem_data_loop(data, array_offsets, record, checks, <<>>)

\* ------------------------------------------------------------------------
\* Bookmark header and table of contents
\* ------------------------------------------------------------------------

bookmark_header(data) ==
    IF Len(data) < 4 * SizeU32 + filler_size THEN Err
    ELSE [st |-> "ok",
          input |-> Drop(data, 4 * SizeU32 + filler_size),
          val |-> [signature |-> le_u32(SubSeq(data, 1, 4)),
                   bookmark_data_length |-> le_u32(SubSeq(data, 5, 8)),
                   version |-> be_u32(SubSeq(data, 9, 12)),
                   bookmark_data_offset |-> le_u32(SubSeq(data, 13, 16))]]

table_of_contents_header(data) ==
    IF Len(data) < SizeU32 + 2 + 2 THEN Err
    ELSE [st |-> "ok",
          input |-> Drop(data, SizeU32 + 2 + 2),
          val |-> [data_length |-> le_u32(SubSeq(data, 1, 4)),
                   record_type |-> le_u16(SubSeq(data, 5, 6)),
                   flags |-> le_u16(SubSeq(data, 7, 8))]]

\* mutant of table_of_contents_data: the records are the data_length bytes
\* the TOC header declares
table_of_contents_data_Trust(data, data_length, checks) ==
    IF Len(data) < 3 * SizeU32 THEN Err
    ELSE LET input == Drop(data, 3 * SizeU32)
             toc_data == [level |-> le_u32(SubSeq(data, 1, 4)),
                          next_record_offset |-> le_u32(SubSeq(data, 5, 8)),
                          number_of_records |-> le_u32(SubSeq(data, 9, 12))]
         IN  IF MulOverflows32(record_size, toc_data.number_of_records) /\ checks THEN Panic
             ELSE IF ~FitsIn(data_length, Len(input)) THEN Err
             ELSE [st |-> "ok", input |-> Prefix(input, data_length[2]), val |-> toc_data]

table_of_contents_data(data, data_length, checks) ==
    IF Len(data) < 3 * SizeU32 THEN Err
    ELSE LET input == Drop(data, 3 * SizeU32)
             toc_data == [level |-> le_u32(SubSeq(data, 1, 4)),
                          next_record_offset |-> le_u32(SubSeq(data, 5, 8)),
                          number_of_records |-> le_u32(SubSeq(data, 9, 12))]
             record_data == WrappingMul32(record_size, toc_data.number_of_records)
         IN  IF MulOverflows32(record_size, toc_data.number_of_records) /\ checks THEN Panic
             ELSE IF Gt32(record_data, data_length)
                  THEN IF ~FitsIn(record_data, Len(input)) THEN Err
                       ELSE [st |-> "ok", input |-> Prefix(input, record_data[2]),
                             val |-> toc_data]
             ELSE [st |-> "ok", input |-> input, val |-> toc_data]

\* mutant of toc_record_loop: a record is read before the count is tested
RECURSIVE toc_record_loop_DoWhile(_, _, _, _)
toc_record_loop_DoWhile(input_data, record, records, toc_records_vec) ==
    IF Len(input_data) < 3 * SizeU32 THEN Err
    ELSE LET vec == Append(toc_records_vec,
                        [record_type |-> le_u32(SubSeq(input_data, 1, 4)),
                         data_offset |-> le_u32(SubSeq(input_data, 5, 8)),
                         reserved |-> le_u32(SubSeq(input_data, 9, 12))])
         IN  IF Inc32(record) = records
             THEN [st |-> "ok", input |-> Drop(input_data, 3 * SizeU32), val |-> vec]
             ELSE toc_record_loop_DoWhile(Drop(input_data, 3 * SizeU32), Inc32(record),
                                          records, vec)

\* the loop of table_of_contents_record
RECURSIVE toc_record_loop(_, _, _, _)
toc_record_loop(input_data, record, records, toc_records_vec) ==
    IF record = records THEN [st |-> "ok", input |-> input_data, val |-> toc_records_vec]
    ELSE IF Len(input_data) < 3 * SizeU32 THEN Err
    ELSE toc_record_loop(Drop(input_data, 3 * SizeU32), Inc32(record), records,
             Append(toc_records_vec,
                    [record_type |-> le_u32(SubSeq(input_data, 1, 4)),
                     data_offset |-> le_u32(SubSeq(input_data, 5, 8)),
                     reserved |-> le_u32(SubSeq(input_data, 9, 12))]))

table_of_contents_record(data, records) == toc_record_loop(data, U32(0), records, <<>>)

\* ------------------------------------------------------------------------
\* The record under construction
\* ------------------------------------------------------------------------

\* LoginItemsData as bookmark_data allocates it
NewLoginItemsData ==
    [path |-> <<>>, cnid_path |-> <<>>, target_flags |-> <<>>, creation |-> Zero64,
     volume_path |-> <<>>, volume_url |-> <<>>, volume_name |-> <<>>,
     volume_uuid |-> <<>>, volume_size |-> Zero64, volume_creation |-> Zero64,
     volume_flag |-> <<>>, volume_root |-> FALSE, localized_name |-> <<>>,
     security_extension |-> <<>>, username |-> <<>>, uid |-> Zero32,
     creation_options |-> Zero32, folder_index |-> Zero32, is_bundled |-> FALSE,
     app_id |-> <<>>, app_binary |-> <<>>]

\* `match r { Ok(v) => lid.field = v, Err(err) => warn!(..) }`
SetIfOk(lid, field, r) == IF r.st = "ok" THEN [lid EXCEPT ![field] = r.val] ELSE lid

Is(standard_data, record_type, data_type) ==
    /\ standard_data.record_type = U32(record_type)
    /\ standard_data.data_type = U32(data_type)

\* mutant of scalar_fields: the volume flags are stored in target_flags
scalar_fields_FlagsMixup(sd, lid) ==
    IF Is(sd, TARGET_FLAGS, DATA_TYPE) THEN
        LET flag_data == bookmark_target_flags(sd.record_data)
        IN  IF flag_data.st = "ok" /\ flag_data.val = <<>> THEN lid
            ELSE SetIfOk(lid, "target_flags", flag_data)
    ELSE IF Is(sd, TARGET_CREATION_DATE, DATE) THEN
        SetIfOk(lid, "creation", bookmark_data_type_date(sd.record_data))
    ELSE IF Is(sd, VOLUME_PATH, STRING_TYPE) THEN
        SetIfOk(lid, "volume_path", bookmark_data_type_string(sd.record_data))
    ELSE IF Is(sd, VOLUME_URL, URL) THEN
        SetIfOk(lid, "volume_url", bookmark_data_type_string(sd.record_data))
    ELSE IF Is(sd, VOLUME_NAME, STRING_TYPE) THEN
        SetIfOk(lid, "volume_name", bookmark_data_type_string(sd.record_data))
    ELSE IF Is(sd, VOLUME_UUID, STRING_TYPE) THEN
        SetIfOk(lid, "volume_uuid", bookmark_data_type_string(sd.record_data))
    ELSE IF Is(sd, VOLUME_SIZE, NUMBER_EIGHT_BYTE) THEN
        SetIfOk(lid, "volume_size", bookmark_data_type_number_eight(sd.record_data))
    ELSE IF Is(sd, VOLUME_CREATION, DATE) THEN
        SetIfOk(lid, "volume_creation", bookmark_data_type_date(sd.record_data))
    ELSE IF Is(sd, VOLUME_FLAGS, DATA_TYPE) THEN
        SetIfOk(lid, "target_flags", bookmark_target_flags(sd.record_data))
    ELSE IF Is(sd, VOLUME_ROOT, BOOL_TRUE) THEN
        [lid EXCEPT !.volume_root = TRUE]
    ELSE IF Is(sd, LOCALIZED_NAME, STRING_TYPE) THEN
        SetIfOk(lid, "localized_name", bookmark_data_type_string(sd.record_data))
    ELSE IF Is(sd, SECURITY_EXTENSION, DATA_TYPE) THEN
        SetIfOk(lid, "security_extension", bookmark_data_type_string(sd.record_data))
    ELSE IF Is(sd, CREATOR_USERNAME, STRING_TYPE) THEN
        SetIfOk(lid, "username", bookmark_data_type_string(sd.record_data))
    ELSE IF Is(sd, CONTAIN_FOLDER_INDEX, NUMBER_FOUR_BYTE) THEN
        SetIfOk(lid, "folder_index", bookmark_data_type_number_four(sd.record_data))
    ELSE IF Is(sd, CREATOR_UID, NUMBER_FOUR_BYTE) THEN
        SetIfOk(lid, "uid", bookmark_data_type_number_four(sd.record_data))
    ELSE IF Is(sd, CREATION_OPTIONS, NUMBER_FOUR_BYTE) THEN
        SetIfOk(lid, "creation_options", bookmark_data_type_number_four(sd.record_data))
    ELSE lid

\* mutant of scalar_fields: the volume name is read whatever the data type
scalar_fields_NameUntyped(sd, lid) ==
    IF Is(sd, TARGET_FLAGS, DATA_TYPE) THEN
        LET flag_data == bookmark_target_flags(sd.record_data)
        IN  IF flag_data.st = "ok" /\ flag_data.val = <<>> THEN lid
            ELSE SetIfOk(lid, "target_flags", flag_data)
    ELSE IF Is(sd, TARGET_CREATION_DATE, DATE) THEN
        SetIfOk(lid, "creation", bookmark_data_type_date(sd.record_data))
    ELSE IF Is(sd, VOLUME_PATH, STRING_TYPE) THEN
        SetIfOk(lid, "volume_path", bookmark_data_type_string(sd.record_data))
    ELSE IF Is(sd, VOLUME_URL, URL) THEN
        SetIfOk(lid, "volume_url", bookmark_data_type_string(sd.record_data))
    ELSE IF sd.record_type = U32(VOLUME_NAME) THEN
        SetIfOk(lid, "volume_name", bookmark_data_type_string(sd.record_data))
    ELSE IF Is(sd, VOLUME_UUID, STRING_TYPE) THEN
        SetIfOk(lid, "volume_uuid", bookmark_data_type_string(sd.record_data))
    ELSE IF Is(sd, VOLUME_SIZE, NUMBER_EIGHT_BYTE) THEN
        SetIfOk(lid, "volume_size", bookmark_data_type_number_eight(sd.record_data))
    ELSE IF Is(sd, VOLUME_CREATION, DATE) THEN
        SetIfOk(lid, "volume_creation", bookmark_data_type_date(sd.record_data))
    ELSE IF Is(sd, VOLUME_FLAGS, DATA_TYPE) THEN
        SetIfOk(lid, "volume_flag", bookmark_target_flags(sd.record_data))
    ELSE IF Is(sd, VOLUME_ROOT, BOOL_TRUE) THEN
        [lid EXCEPT !.volume_root = TRUE]
    ELSE IF Is(sd, LOCALIZED_NAME, STRING_TYPE) THEN
        SetIfOk(lid, "localized_name", bookmark_data_type_string(sd.record_data))
    ELSE IF Is(sd, SECURITY_EXTENSION, DATA_TYPE) THEN
        SetIfOk(lid, "security_extension", bookmark_data_type_string(sd.record_data))
    ELSE IF Is(sd, CREATOR_USERNAME, STRING_TYPE) THEN
        SetIfOk(lid, "username", bookmark_data_type_string(sd.record_data))
    ELSE IF Is(sd, CONTAIN_FOLDER_INDEX, NUMBER_FOUR_BYTE) THEN
        SetIfOk(lid, "folder_index", bookmark_data_type_number_four(sd.record_data))
    ELSE IF Is(sd, CREATOR_UID, NUMBER_FOUR_BYTE) THEN
        SetIfOk(lid, "uid", bookmark_data_type_number_four(sd.record_data))
    ELSE IF Is(sd, CREATION_OPTIONS, NUMBER_FOUR_BYTE) THEN
        SetIfOk(lid, "creation_options", bookmark_data_type_number_four(sd.record_data))
    ELSE lid

\* bookmark_data: the branch taken when no array data was resolved
scalar_fields(sd, lid) ==
    IF Is(sd, TARGET_FLAGS, DATA_TYPE) THEN
        LET flag_data == bookmark_target_flags(sd.record_data)
        IN  IF flag_data.st = "ok" /\ flag_data.val = <<>> THEN lid
            ELSE SetIfOk(lid, "target_flags", flag_data)
    ELSE IF Is(sd, TARGET_CREATION_DATE, DATE) THEN
        SetIfOk(lid, "creation", bookmark_data_type_date(sd.record_data))
    ELSE IF Is(sd, VOLUME_PATH, STRING_TYPE) THEN
        SetIfOk(lid, "volume_path", bookmark_data_type_string(sd.record_data))
    ELSE IF Is(sd, VOLUME_URL, URL) THEN
        SetIfOk(lid, "volume_url", bookmark_data_type_string(sd.record_data))
    ELSE IF Is(sd, VOLUME_NAME, STRING_TYPE) THEN
        SetIfOk(lid, "volume_name", bookmark_data_type_string(sd.record_data))
    ELSE IF Is(sd, VOLUME_UUID, STRING_TYPE) THEN
        SetIfOk(lid, "volume_uuid", bookmark_data_type_string(sd.record_data))
    ELSE IF Is(sd, VOLUME_SIZE, NUMBER_EIGHT_BYTE) THEN
        SetIfOk(lid, "volume_size", bookmark_data_type_number_eight(sd.record_data))
    ELSE IF Is(sd, VOLUME_CREATION, DATE) THEN
        SetIfOk(lid, "volume_creation", bookmark_data_type_date(sd.record_data))
    ELSE IF Is(sd, VOLUME_FLAGS, DATA_TYPE) THEN
        SetIfOk(lid, "volume_flag", bookmark_target_flags(sd.record_data))
    ELSE IF Is(sd, VOLUME_ROOT, BOOL_TRUE) THEN
        [lid EXCEPT !.volume_root = TRUE]
    ELSE IF Is(sd, LOCALIZED_NAME, STRING_TYPE) THEN
        SetIfOk(lid, "localized_name", bookmark_data_type_string(sd.record_data))
    ELSE IF Is(sd, SECURITY_EXTENSION, DATA_TYPE) THEN
        SetIfOk(lid, "security_extension", bookmark_data_type_string(sd.record_data))
    ELSE IF Is(sd, CREATOR_USERNAME, STRING_TYPE) THEN
        SetIfOk(lid, "username", bookmark_data_type_string(sd.record_data))
    ELSE IF Is(sd, CONTAIN_FOLDER_INDEX, NUMBER_FOUR_BYTE) THEN
        SetIfOk(lid, "folder_index", bookmark_data_type_number_four(sd.record_data))
    ELSE IF Is(sd, CREATOR_UID, NUMBER_FOUR_BYTE) THEN
        SetIfOk(lid, "uid", bookmark_data_type_number_four(sd.record_data))
    ELSE IF Is(sd, CREATION_OPTIONS, NUMBER_FOUR_BYTE) THEN
        SetIfOk(lid, "creation_options", bookmark_data_type_number_four(sd.record_data))
    ELSE lid

\* mutant of PushIfOk: an element that fails to parse is pushed as an empty
\* value
PushIfOk_PushEmpty(lid, field, r) ==
    IF r.st = "ok" THEN [lid EXCEPT ![field] = Append(@, r.val)]
    ELSE [lid EXCEPT ![field] = Append(@, <<>>)]

\* `match r { Ok(v) => lid.field.push(v), Err(_err) => continue }`
PushIfOk(lid, field, r) ==
    IF r.st = "ok" THEN [lid EXCEPT ![field] = Append(@, r.val)] ELSE lid

\* mutant of array_fields: the numbers of a CNID path are pushed onto path
RECURSIVE array_fields_CnidIntoPath(_, _)
array_fields_CnidIntoPath(standard_data_vec, lid) ==
    IF standard_data_vec = <<>> THEN lid
    ELSE LET sd == Head(standard_data_vec)
         IN  array_fields_CnidIntoPath(Tail(standard_data_vec),
                 IF Is(sd, TARGET_PATH, STRING_TYPE)
                 THEN PushIfOk(lid, "path", bookmark_data_type_string(sd.record_data))
                 ELSE IF Is(sd, TARGET_CNID_PATH, NUMBER_EIGHT_BYTE)
                 THEN PushIfOk(lid, "path", bookmark_cnid(sd.record_data))
                 ELSE lid)

\* bookmark_data: the loop over the resolved array elements
RECURSIVE array_fields(_, _)
array_fields(standard_data_vec, lid) ==
    IF standard_data_vec = <<>> THEN lid
    ELSE LET sd == Head(standard_data_vec)
         IN  array_fields(Tail(standard_data_vec),
                 IF Is(sd, TARGET_PATH, STRING_TYPE)
                 THEN PushIfOk(lid, "path", bookmark_data_type_string(sd.record_data))
                 ELSE IF Is(sd, TARGET_CNID_PATH, NUMBER_EIGHT_BYTE)
                 THEN PushIfOk(lid, "cnid_path", bookmark_cnid(sd.record_data))
                 ELSE lid)

\* bookmark_data: one iteration of `for record in toc_content_data_record`
bookmark_data_record(core_data, record, lid, checks) ==
    LET standard_data == bookmark_standard_data(core_data, record, checks)
    IN  IF standard_data.st # "ok" THEN [st |-> standard_data.st]
        ELSE LET sd == standard_data.val
                 results_data == IF sd.data_type = U32(ARRAY_TYPE)
                                 THEN bookmark_array(sd.record_data)
                                 ELSE Err
             IN  IF sd.data_type = U32(ARRAY_TYPE) /\ results_data.st = "ok"
                 THEN IF results_data.val = <<>> THEN [st |-> "ok", val |-> lid]
                      ELSE LET std_data_vec ==
                                   loginitem_data(core_data, results_data.val, record, checks)
                           IN  IF std_data_vec.st # "ok" THEN [st |-> std_data_vec.st]
                               ELSE IF std_data_vec.val = <<>>
                                    THEN [st |-> "ok", val |-> scalar_fields(sd, lid)]
                               ELSE [st |-> "ok",
                                     val |-> array_fields(std_data_vec.val, lid)]
                 ELSE [st |-> "ok", val |-> scalar_fields(sd, lid)]

\* bookmark_data: everything before the loop over the TOC records
bookmark_data_toc(data, checks) ==
    IF Len(data) < SizeU32 THEN Err
    ELSE LET toc_offset == le_u32(Prefix(data, SizeU32))
             input == Drop(data, SizeU32)
             count == WrappingSub32(toc_offset, U32(toc_offset_size))
         IN  IF Lt32(toc_offset, U32(toc_offset_size)) /\ checks THEN Panic
             ELSE IF ~FitsIn(count, Len(input)) THEN Err
             ELSE LET core_data == Prefix(input, count[2])
                      toc_header == table_of_contents_header(Drop(input, count[2]))
                  IN  IF toc_header.st # "ok" THEN [st |-> toc_header.st]
                      ELSE LET toc_content_data ==
                                   table_of_contents_data(toc_header.input,
                                       toc_header.val.data_length, checks)
                           IN  IF toc_content_data.st # "ok"
                               THEN [st |-> toc_content_data.st]
                               ELSE LET toc_content_data_record ==
                                            table_of_contents_record(toc_content_data.input,
                                                toc_content_data.val.number_of_records)
                                    IN  IF toc_content_data_record.st # "ok"
                                        THEN [st |-> toc_content_data_record.st]
                                        ELSE [st |-> "ok",
                                              core_data |-> core_data,
                                              val |-> toc_content_data_record.val]

\* bookmark_data: the loop over the TOC records, from record i on
RECURSIVE bookmark_data_loop(_, _, _, _, _)
bookmark_data_loop(core_data, toc_records, i, lid, checks) ==
    IF i > Len(toc_records) THEN [st |-> "ok", val |-> lid]
    ELSE LET r == bookmark_data_record(core_data, toc_records[i], lid, checks)
         IN  IF r.st # "ok" THEN r
             ELSE bookmark_data_loop(core_data, toc_records, i + 1, r.val, checks)

bookmark_data(data, checks) ==
    LET toc == bookmark_data_toc(data, checks)
    IN  IF toc.st # "ok" THEN [st |-> toc.st]
        ELSE bookmark_data_loop(toc.core_data, toc.val, 1, NewLoginItemsData, checks)

\* ------------------------------------------------------------------------
\* The plist envelope and the bookmark locator (loginitems_plist.rs)
\*
\* A plist value is a record [t, v]: t is "Data" (v a byte sequence),
\* "Array" (v a sequence of values), "Dictionary" (v a sequence of
\* <<key, value>> pairs in the dictionary's iteration order) or "String".
\* A file is [readable |-> FALSE] when plist::from_file fails on it and
\* [readable |-> TRUE, dict |-> pairs] otherwise.
\* ------------------------------------------------------------------------

\* get_array_values: the loop over the entries of a dictionary of `$objects`
RECURSIVE dictionary_loop(_, _)
dictionary_loop(dict, bookmark_data_vec) ==
    IF dict = <<>> THEN bookmark_data_vec
    ELSE LET dict_data == Head(dict)[2]
         IN  dictionary_loop(Tail(dict),
                 IF dict_data.t = "Data"
                 THEN IF Len(dict_data.v) < min_bookmark_size
                      THEN bookmark_data_vec
                      ELSE Append(bookmark_data_vec, dict_data.v)
                 ELSE bookmark_data_vec)

RECURSIVE array_values_loop(_, _)
array_values_loop(data_results, bookmark_data_vec) ==
    IF data_results = <<>> THEN bookmark_data_vec
    ELSE LET data == Head(data_results)
         IN  array_values_loop(Tail(data_results),
                 IF data.t = "Data" THEN Append(bookmark_data_vec, data.v)
                 ELSE IF data.t = "Dictionary"
                      THEN dictionary_loop(data.v, bookmark_data_vec)
                 ELSE bookmark_data_vec)

get_array_values(data_results) == array_values_loop(data_results, <<>>)

\* mutant of get_bookmarks_loop: the key is not compared with "$objects"
RECURSIVE get_bookmarks_loop_AnyKey(_)
get_bookmarks_loop_AnyKey(login_items) ==
    IF login_items = <<>> THEN <<>>
    ELSE LET value == Head(login_items)[2]
         IN  IF value.t = "Array" THEN get_array_values(value.v)
             ELSE get_bookmarks_loop_AnyKey(Tail(login_items))

RECURSIVE get_bookmarks_loop(_)
get_bookmarks_loop(login_items) ==
    IF login_items = <<>> THEN <<>>
    ELSE LET key == Head(login_items)[1]
             value == Head(login_items)[2]
         IN  IF key # "$objects" THEN get_bookmarks_loop(Tail(login_items))
             ELSE IF value.t = "Array" THEN get_array_values(value.v)
             ELSE get_bookmarks_loop(Tail(login_items))

get_bookmarks(f) ==
    IF ~f.readable THEN Err ELSE [st |-> "ok", val |-> get_bookmarks_loop(f.dict)]

\* mutant of IsBookmark: the data offset is not compared
IsBookmark_SignatureOnly(bookmark_header_val) ==
    bookmark_header_val.signature = book_sig

\* parse_loginitems: the check of signature and data offset
IsBookmark(bookmark_header_val) ==
    ~(\/ bookmark_header_val.signature # book_sig
      \/ bookmark_header_val.bookmark_data_offset # U32(book_data_offset))

\* ------------------------------------------------------------------------
\* Inputs: bookmark blobs built byte by byte, and plist documents
\* ------------------------------------------------------------------------

LE32(n) == <<n % 256, (n \div 256) % 256, (n \div Half) % 256, (n \div (256 * Half)) % 256>>

TypedRecord(type, payload) == LE32(Len(payload)) \o LE32(type) \o payload

RECURSIVE Flatten(_)
Flatten(ss) == IF ss = <<>> THEN <<>> ELSE Head(ss) \o Flatten(Tail(ss))

\* leaf records of the heap, by name
Leaves ==
    << <<"str1", TypedRecord(STRING_TYPE, <<65, 112>>)>>,
       <<"str2", TypedRecord(STRING_TYPE, <<66>>)>>,
       <<"strbad", TypedRecord(STRING_TYPE, <<67, 255>>)>>,
       <<"num1", TypedRecord(NUMBER_EIGHT_BYTE, <<103, 0, 0, 0, 0, 0, 0, 0>>)>>,
       <<"num2", TypedRecord(NUMBER_EIGHT_BYTE, <<42, 198, 10, 0, 0, 0, 0, 0>>)>>,
       <<"flags1", TypedRecord(DATA_TYPE, <<3, 0, 0, 0, 0, 0, 0, 0>>)>>,
       <<"flags3", TypedRecord(DATA_TYPE,
            <<2, 0, 0, 0, 0, 0, 0, 0, 15, 0, 0, 0, 0, 0, 0, 0, 0, 0, 0, 0, 0, 0, 0, 0>>)>>,
       <<"flags4", TypedRecord(DATA_TYPE,
            <<129, 0, 0, 0, 1, 0, 0, 0, 239, 19, 0, 0, 1, 0, 0, 0,
              0, 0, 0, 0, 0, 0, 0, 0, 7, 0, 0, 0, 0, 0, 0, 0>>)>>,
       <<"flagspart", TypedRecord(DATA_TYPE, <<1, 0, 0, 0, 0, 0, 0, 0, 9, 9, 9, 9>>)>>,
       <<"flags2", TypedRecord(DATA_TYPE,
            <<5, 0, 0, 0, 0, 0, 0, 0, 0, 1, 0, 0, 0, 0, 0, 0>>)>>,
       <<"true", TypedRecord(BOOL_TRUE, <<>>)>> >>

RECURSIVE SumLen(_, _)
SumLen(recs, n) == IF n = 0 THEN 0 ELSE Len(recs[n][2]) + SumLen(recs, n - 1)

IndexOf(recs, name) == CHOOSE i \in 1..Len(recs) : recs[i][1] = name

\* an offset beyond every heap of the model
OutsideOffset == 60000 + 0

\* array records of the heap, by name, each with the names of the records
\* its elements point at ("outside" is the offset beyond the heap). The last
\* three have an array among their elements: one whose inner array has an
\* element outside the heap, one that has itself as an element, one whose
\* inner array holds strings
Arrays ==
    << <<"arrstr", <<"str1", "str2">> >>,
       <<"arrnum", <<"num1", "num2">> >>,
       <<"arrnum1", <<"num2">> >>,
       <<"arrstrbad", <<"strbad", "str2">> >>,
       <<"arrout", <<"outside">> >>,
       <<"arrnest", <<"arrout", "str1">> >>,
       <<"arrself", <<"arrself", "str2">> >>,
       <<"arrdeep", <<"arrstr">> >> >>

\* the bytes of the first n array records: a header and 4 bytes an element
RECURSIVE ArraysLen(_)
ArraysLen(n) ==
    IF n = 0 THEN 0
    ELSE 2 * SizeU32 + SizeU32 * Len(Arrays[n][2]) + ArraysLen(n - 1)

\* offset of a heap record from the start of the data region: the leaves
\* come first, the arrays after them
Offset(name) ==
    IF name = "outside" THEN OutsideOffset
    ELSE IF \E i \in 1..Len(Leaves) : Leaves[i][1] = name
         THEN toc_offset_size + SumLen(Leaves, IndexOf(Leaves, name) - 1)
         ELSE toc_offset_size + SumLen(Leaves, Len(Leaves))
              + ArraysLen(IndexOf(Arrays, name) - 1)

ArrayRecord(elems) ==
    TypedRecord(ARRAY_TYPE, Flatten([i \in 1..Len(elems) |-> LE32(Offset(elems[i]))]))

HeapRecords ==
    Leaves \o [i \in 1..Len(Arrays) |-> <<Arrays[i][1], ArrayRecord(Arrays[i][2])>>]

Heap == Flatten([i \in 1..Len(HeapRecords) |-> HeapRecords[i][2]])

\* a TOC entry as the blob builder takes it: a key and a data offset
Entry(key, off) == [key |-> key, off |-> off]

TocBytes(toc) ==
    Flatten([i \in 1..Len(toc) |-> LE32(toc[i].key) \o LE32(toc[i].off) \o LE32(0)])

Zeros(n) == [i \in 1..n |-> 0]

\* the data region: TOC offset, heap, TOC header with the data length it
\* declares, TOC body with the number of records it declares, TOC records
DataRegionWith(toc, data_length, number_of_records) ==
    LE32(toc_offset_size + Len(Heap)) \o Heap
    \o data_length \o <<254, 255, 255, 255>>
    \o LE32(1) \o LE32(0) \o number_of_records
    \o TocBytes(toc)

\* the data region of a blob whose TOC declares what it holds
DataRegion(toc) == DataRegionWith(toc, LE32(record_size * Len(toc)), LE32(Len(toc)))

\* a bookmark blob: "book", total length, version, data offset 48, reserved
MkHeader(sig, data_offset, total) ==
    sig \o LE32(total) \o <<0, 0, 4, 16>> \o LE32(data_offset) \o Zeros(filler_size)

MkBookmark(toc) ==
    MkHeader(<<98, 111, 111, 107>>, book_data_offset,
             book_data_offset + Len(DataRegion(toc)))
    \o DataRegion(toc)

\* the TOC entries bookmarks are generated from
TocEntries ==
    { Entry(TARGET_PATH, Offset("arrstr")),
      Entry(TARGET_PATH, Offset("arrstrbad")),
      Entry(TARGET_PATH, Offset("arrnum")),
      Entry(TARGET_PATH, toc_offset_size - 2),
      Entry(TARGET_CNID_PATH, Offset("arrnum")),
      Entry(TARGET_CNID_PATH, Offset("arrnum1")),
      Entry(TARGET_FLAGS, Offset("flags3")),
      Entry(TARGET_FLAGS, Offset("flags4")),
      Entry(VOLUME_FLAGS, Offset("flags1")),
      Entry(VOLUME_FLAGS, Offset("flagspart")),
      Entry(VOLUME_NAME, Offset("str1")),
      Entry(VOLUME_NAME, Offset("str2")),
      Entry(VOLUME_NAME, Offset("num1")),
      Entry(VOLUME_NAME, Offset("arrout")),
      Entry(VOLUME_NAME, Offset("arrstr")),
      Entry(VOLUME_ROOT, Offset("true")),
      Entry(VOLUME_ROOT + 1, Offset("str1")) }

SeqsUpTo(S, n) == UNION {[1..k -> S] : k \in 0..n}

\* TOC entries for the edges of the typed-record reader: a header that runs
\* past the end of the heap, a declared payload length that does, a string
\* that is not UTF-8 under a scalar key, and the security extension keys
EdgeEntries ==
    { Entry(VOLUME_NAME, toc_offset_size + Len(Heap) - SizeU32),
      Entry(VOLUME_NAME, Offset("str1") + 2 * SizeU32),
      Entry(VOLUME_NAME, Offset("strbad")),
      Entry(SECURITY_EXTENSION, Offset("flags1")),
      Entry(SECURITY_EXTENSION + 1, Offset("flags1")),
      Entry(TARGET_PATH, Offset("arrnest")),
      Entry(TARGET_PATH, Offset("arrself")),
      Entry(TARGET_PATH, Offset("arrdeep")),
      Entry(TARGET_CNID_PATH, Offset("arrnest")),
      Entry(TARGET_FLAGS, Offset("flags2")),
      Entry(TARGET_FLAGS, Offset("flagspart")) }

\* entries that stand before or after an edge entry
EdgePartners ==
    { Entry(VOLUME_ROOT, Offset("true")),
      Entry(TARGET_PATH, Offset("arrstrbad")),
      Entry(TARGET_CNID_PATH, Offset("arrout")) }

EdgeTocs ==
    {<<e>> : e \in EdgeEntries}
    \cup {<<e, c>> : e \in EdgeEntries, c \in EdgePartners}
    \cup {<<c, e>> : e \in EdgeEntries, c \in EdgePartners}

MkBookmarkWith(toc, data_length, number_of_records) ==
    MkHeader(<<98, 111, 111, 107>>, book_data_offset,
             book_data_offset + Len(DataRegionWith(toc, data_length, number_of_records)))
    \o DataRegionWith(toc, data_length, number_of_records)

\* the data lengths a TOC header may declare for n records: none, 8 short,
\* exact, 8 more, the largest u32
DataLengthsFor(n) ==
    {LE32(0), LE32(record_size * n), LE32(record_size * n + 2 * SizeU32),
     <<255, 255, 255, 255>>}
    \cup (IF n > 0 THEN {LE32(record_size * n - 2 * SizeU32)} ELSE {})

\* a number of records whose product with 12 does not fit 32 bits
HugeRecords == <<86, 85, 85, 21>>

\* blobs whose TOC declares another data length or number of records than
\* the records that follow
SkewedBlobs ==
    LET one == <<Entry(VOLUME_NAME, Offset("str1"))>>
        two == <<Entry(VOLUME_NAME, Offset("str2")), Entry(VOLUME_ROOT, Offset("true"))>>
    IN  {MkBookmarkWith(toc, dl, LE32(Len(toc))) :
             toc \in {one, two}, dl \in DataLengthsFor(1) \cup DataLengthsFor(2)}
        \cup {MkBookmarkWith(two, dl, n) :
                 dl \in {LE32(0), LE32(record_size * 3)},
                 n \in {LE32(1), LE32(3), HugeRecords}}

\* the blobs plist documents are assembled from
GoodA == MkBookmark(<<Entry(TARGET_PATH, Offset("arrstr")),
                      Entry(TARGET_CNID_PATH, Offset("arrnum"))>>)

GoodB == MkBookmark(<<Entry(VOLUME_NAME, Offset("str2"))>>)

\* 48 bytes or more, signature not "book"
BadSig == <<98, 112, 108, 105>> \o Drop(GoodB, 4)

\* 48 bytes or more, signature "book", data offset 40
BadOffset == MkHeader(<<98, 111, 111, 107>>, book_data_offset - 8, Len(GoodB))
             \o DataRegion(<<Entry(VOLUME_NAME, Offset("str2"))>>)

\* shorter than the header
Short == Prefix(GoodA, min_bookmark_size - 28)

\* a valid header and no data region
HeaderOnly == Prefix(GoodA, min_bookmark_size)

\* a valid header and a TOC offset of 2
TocOffsetLow == Prefix(GoodB, min_bookmark_size) \o LE32(toc_offset_size - 2)
                \o Drop(GoodB, min_bookmark_size + SizeU32)

Data(b) == [t |-> "Data", v |-> b]

Str == [t |-> "String", v |-> <<>>]

Arr(vs) == [t |-> "Array", v |-> vs]

Dict(kvs) == [t |-> "Dictionary", v |-> kvs]

\* the entries `$objects` arrays are generated from
ObjectEntries ==
    { Data(GoodA), Data(GoodB), Data(BadSig), Data(Short), Data(HeaderOnly),
      Data(TocOffsetLow), Str,
      Dict(<< <<"NS.uuid", Data(Short)>>, <<"NS.data", Data(GoodB)>>,
              <<"NS.name", Str>>, <<"NS.keys", Arr(<<Data(GoodA)>>)>>,
              <<"NS.other", Data(BadOffset)>>, <<"NS.more", Data(GoodA)>> >>),
      Dict(<< <<"NS.uuid", Data(Short)>> >>) }

Files ==
    {[readable |-> FALSE]}
    \cup {[readable |-> TRUE, dict |-> d] :
             d \in { <<>>,
                     << <<"$version", Str>> >>,
                     << <<"$objects", Str>>, <<"$top", Arr(<<Data(GoodA)>>)>> >>,
                     << <<"$objects", Dict(<< <<"NS.data", Data(GoodA)>> >>)>> >> }}
    \cup {[readable |-> TRUE,
           dict |-> << <<"$version", Str>>, <<"$objects", Arr(objs)>> >>] :
             objs \in SeqsUpTo(ObjectEntries, MaxObjects)}
    \cup {[readable |-> TRUE,
           dict |-> << <<"$objects", Arr(<<Data(MkBookmark(toc))>>)>> >>] :
             toc \in SeqsUpTo(TocEntries, MaxToc) \cup EdgeTocs}
    \cup {[readable |-> TRUE, dict |-> << <<"$objects", Arr(<<Data(blob)>>)>> >>] :
             blob \in SkewedBlobs}

Paths == {"/Users/a/backgrounditems.btm", "/Users/b/backgrounditems.btm"}

\* ------------------------------------------------------------------------
\* State
\* ------------------------------------------------------------------------

VARIABLES
    overflow_checks,    \* the build checks arithmetic overflow (debug) or wraps (release)
    path,               \* parse_loginitems: the path argument
    file,               \* the plist file at that path
    pc,                 \* position: "start", "header", "record", "done"
    loginitems_data,    \* parse_loginitems: the candidate blobs of get_bookmarks
    idx,                \* parse_loginitems: index of the candidate the loop is at
    loginitems_array,   \* parse_loginitems: the records decoded so far
    core_data,          \* bookmark_data: the record heap of the current candidate
    toc_records,        \* bookmark_data: toc_content_data_record
    rec_i,              \* bookmark_data: index of the TOC record the loop is at
    login_items_data,   \* bookmark_data: the record under construction
    result,             \* what parse_loginitems returned
    apps_dir,           \* loginitem_apps: the directory read_dir is given
    apps_pc,            \* loginitem_apps: "idle", "start", "entry", "key", "done"
    entry_i,            \* loginitem_apps: index of the directory entry the loop is at
    key_i,              \* loginitem_apps: index of the plist key the inner loop is at
    loginitems,         \* loginitem_apps: the document of the current entry
    loginitems_vec,     \* loginitem_apps: the documents pushed so far
    apps_result,        \* what loginitem_apps returned
    users,              \* parse_loginitems_system: the directory /Users/
    system_pc,          \* parse_loginitems_system: "idle", "start", "user", "parse", "apps", "done"
    user_i,             \* parse_loginitems_system: index of the entry of /Users/ the loop is at
    system_loginitems_data, \* parse_loginitems_system: its loginitems_data, the documents so far
    system_result       \* what parse_loginitems_system returned

\* the state of loginitem_apps
apps_vars == <<apps_dir, apps_pc, entry_i, key_i, loginitems, loginitems_vec, apps_result>>

\* the state of parse_loginitems
decoder_vars == <<overflow_checks, path, file, pc, loginitems_data, idx, loginitems_array,
                  core_data, toc_records, rec_i, login_items_data, result>>

\* the state of parse_loginitems_system
system_vars == <<users, system_pc, user_i, system_loginitems_data, system_result>>

vars == <<decoder_vars, apps_vars, system_vars>>

NoResult == [st |-> "none"]

\* LoginItemsResults as loginitem_apps allocates it for every directory entry
NewLoginItemsResults == [results |-> <<>>, path |-> <<>>]

\* loginitem_apps has not been called
AppsIdle ==
    /\ apps_dir = [readable |-> FALSE]
    /\ apps_pc = "idle"
    /\ entry_i = 0
    /\ key_i = 0
    /\ loginitems = NewLoginItemsResults
    /\ loginitems_vec = <<>>
    /\ apps_result = NoResult

\* parse_loginitems_system has not been called
SystemIdle ==
    /\ users = [readable |-> FALSE]
    /\ system_pc = "idle"
    /\ user_i = 0
    /\ system_loginitems_data = <<>>
    /\ system_result = NoResult

Init ==
    /\ overflow_checks \in BOOLEAN
    /\ path \in Paths
    /\ file \in Files
    /\ pc = "start"
    /\ loginitems_data = <<>>
    /\ idx = 0
    /\ loginitems_array = <<>>
    /\ core_data = <<>>
    /\ toc_records = <<>>
    /\ rec_i = 0
    /\ login_items_data = NewLoginItemsData
    /\ result = NoResult
    /\ AppsIdle
    /\ SystemIdle

Return(r) ==
    /\ result' = r
    /\ pc' = "done"

\* mutant of GetBookmarksError: the plist failure is wrapped like the decode
\* failures, in an InvalidInput error
GetBookmarksError_InvalidInput ==
    /\ pc = "start"
    /\ get_bookmarks(file).st = "err"
    /\ Return([st |-> "err", kind |-> "bookmark"])
    /\ UNCHANGED <<system_vars, apps_vars, overflow_checks, path, file, loginitems_data, idx, loginitems_array,
                   core_data, toc_records, rec_i, login_items_data>>

\* get_bookmarks fails: `?` returns the plist error
GetBookmarksError ==
    /\ pc = "start"
    /\ get_bookmarks(file).st = "err"
    /\ Return([st |-> "err", kind |-> "plist"])
    /\ UNCHANGED <<system_vars, apps_vars, overflow_checks, path, file, loginitems_data, idx, loginitems_array,
                   core_data, toc_records, rec_i, login_items_data>>

\* no candidate blob: the early return of parse_loginitems
NoLoginItems ==
    /\ pc = "start"
    /\ get_bookmarks(file).st = "ok"
    /\ get_bookmarks(file).val = <<>>
    /\ Return([st |-> "ok", results |-> <<>>, path |-> ""])
    /\ UNCHANGED <<system_vars, apps_vars, overflow_checks, path, file, loginitems_data, idx, loginitems_array,
                   core_data, toc_records, rec_i, login_items_data>>

GetBookmarks ==
    /\ pc = "start"
    /\ get_bookmarks(file).st = "ok"
    /\ get_bookmarks(file).val # <<>>
    /\ loginitems_data' = get_bookmarks(file).val
    /\ idx' = 1
    /\ pc' = "header"
    /\ UNCHANGED <<system_vars, apps_vars, overflow_checks, path, file, loginitems_array, core_data,
                   toc_records, rec_i, login_items_data, result>>

AtCandidate == pc = "header" /\ idx <= Len(loginitems_data)

\* bookmark_header fails on the candidate
BookmarkHeaderError ==
    /\ AtCandidate
    /\ bookmark_header(loginitems_data[idx]).st = "err"
    /\ Return([st |-> "err", kind |-> "header"])
    /\ UNCHANGED <<system_vars, apps_vars, overflow_checks, path, file, loginitems_data, idx, loginitems_array,
                   core_data, toc_records, rec_i, login_items_data>>

\* signature or data offset mismatch: warn and continue
NotABookmark ==
    /\ AtCandidate
    /\ bookmark_header(loginitems_data[idx]).st = "ok"
    /\ ~IsBookmark(bookmark_header(loginitems_data[idx]).val)
    /\ idx' = idx + 1
    /\ UNCHANGED <<system_vars, apps_vars, overflow_checks, path, file, pc, loginitems_data, loginitems_array,
                   core_data, toc_records, rec_i, login_items_data, result>>

PassesHeader ==
    /\ AtCandidate
    /\ bookmark_header(loginitems_data[idx]).st = "ok"
    /\ IsBookmark(bookmark_header(loginitems_data[idx]).val)

CurrentToc == bookmark_data_toc(bookmark_header(loginitems_data[idx]).input, overflow_checks)

\* bookmark_data reads the TOC and allocates the record
BookmarkDataToc ==
    /\ PassesHeader
    /\ CurrentToc.st = "ok"
    /\ core_data' = CurrentToc.core_data
    /\ toc_records' = CurrentToc.val
    /\ rec_i' = 1
    /\ login_items_data' = NewLoginItemsData
    /\ pc' = "record"
    /\ UNCHANGED <<system_vars, apps_vars, overflow_checks, path, file, loginitems_data, idx, loginitems_array,
                   result>>

\* mutant of BookmarkDataTocError: the failure is logged and the candidate
\* passed over
BookmarkDataTocError_Continue ==
    /\ PassesHeader
    /\ CurrentToc.st = "err"
    /\ idx' = idx + 1
    /\ UNCHANGED <<system_vars, apps_vars, overflow_checks, path, file, pc, loginitems_data, loginitems_array,
                   core_data, toc_records, rec_i, login_items_data, result>>

\* bookmark_data fails before the TOC records are read
BookmarkDataTocError ==
    /\ PassesHeader
    /\ CurrentToc.st = "err"
    /\ Return([st |-> "err", kind |-> "bookmark"])
    /\ UNCHANGED <<system_vars, apps_vars, overflow_checks, path, file, loginitems_data, idx, loginitems_array,
                   core_data, toc_records, rec_i, login_items_data>>

AtRecord == pc = "record" /\ rec_i <= Len(toc_records)

CurrentRecord ==
    bookmark_data_record(core_data, toc_records[rec_i], login_items_data, overflow_checks)

\* mutant of BookmarkDataRecord: the loop goes round again on the same TOC
\* record
BookmarkDataRecord_SameRecord ==
    /\ AtRecord
    /\ CurrentRecord.st = "ok"
    /\ login_items_data' = CurrentRecord.val
    /\ rec_i' = rec_i
    /\ UNCHANGED <<system_vars, apps_vars, overflow_checks, path, file, pc, loginitems_data, idx,
                   loginitems_array, core_data, toc_records, result>>

\* one TOC record is processed
BookmarkDataRecord ==
    /\ AtRecord
    /\ CurrentRecord.st = "ok"
    /\ login_items_data' = CurrentRecord.val
    /\ rec_i' = rec_i + 1
    /\ UNCHANGED <<system_vars, apps_vars, overflow_checks, path, file, pc, loginitems_data, idx,
                   loginitems_array, core_data, toc_records, result>>

\* mutant of BookmarkDataRecordError: the error is logged and the candidate skipped
BookmarkDataRecordError_Skip ==
    /\ AtRecord
    /\ CurrentRecord.st = "err"
    /\ idx' = idx + 1
    /\ pc' = "header"
    /\ UNCHANGED <<system_vars, apps_vars, overflow_checks, path, file, loginitems_data, loginitems_array,
                   core_data, toc_records, rec_i, login_items_data, result>>

\* a TOC record or an array element cannot be read: `?` returns the error
BookmarkDataRecordError ==
    /\ AtRecord
    /\ CurrentRecord.st = "err"
    /\ Return([st |-> "err", kind |-> "bookmark"])
    /\ UNCHANGED <<system_vars, apps_vars, overflow_checks, path, file, loginitems_data, idx, loginitems_array,
                   core_data, toc_records, rec_i, login_items_data>>

\* a TOC offset below 4 in a build with overflow checks: the thread panics
BookmarkDataTocPanic ==
    /\ PassesHeader
    /\ CurrentToc.st = "panic"
    /\ Return([st |-> "panic"])
    /\ UNCHANGED <<system_vars, apps_vars, overflow_checks, path, file, loginitems_data, idx, loginitems_array,
                   core_data, toc_records, rec_i, login_items_data>>

\* a data offset below 4 in a build with overflow checks: the thread panics
BookmarkDataRecordPanic ==
    /\ AtRecord
    /\ CurrentRecord.st = "panic"
    /\ Return([st |-> "panic"])
    /\ UNCHANGED <<system_vars, apps_vars, overflow_checks, path, file, loginitems_data, idx, loginitems_array,
                   core_data, toc_records, rec_i, login_items_data>>

\* mutant of PushLoginItem: the record is inserted at the front
PushLoginItem_Front ==
    /\ pc = "record"
    /\ rec_i > Len(toc_records)
    /\ loginitems_array' = <<login_items_data>> \o loginitems_array
    /\ idx' = idx + 1
    /\ pc' = "header"
    /\ core_data' = <<>>
    /\ toc_records' = <<>>
    /\ rec_i' = 0
    /\ login_items_data' = NewLoginItemsData
    /\ UNCHANGED <<system_vars, apps_vars, overflow_checks, path, file, loginitems_data, result>>

\* bookmark_data returns the record and parse_loginitems pushes it
PushLoginItem ==
    /\ pc = "record"
    /\ rec_i > Len(toc_records)
    /\ loginitems_array' = Append(loginitems_array, login_items_data)
    /\ idx' = idx + 1
    /\ pc' = "header"
    /\ core_data' = <<>>
    /\ toc_records' = <<>>
    /\ rec_i' = 0
    /\ login_items_data' = NewLoginItemsData
    /\ UNCHANGED <<system_vars, apps_vars, overflow_checks, path, file, loginitems_data, result>>

\* all candidates done: Ok(LoginItemsResults { results, path })
ReturnResults ==
    /\ pc = "header"
    /\ idx > Len(loginitems_data)
    /\ Return([st |-> "ok", results |-> loginitems_array, path |-> path])
    /\ UNCHANGED <<system_vars, apps_vars, overflow_checks, path, file, loginitems_data, idx, loginitems_array,
                   core_data, toc_records, rec_i, login_items_data>>

Next ==
    \/ GetBookmarksError
    \/ NoLoginItems
    \/ GetBookmarks
    \/ BookmarkHeaderError
    \/ NotABookmark
    \/ BookmarkDataToc
    \/ BookmarkDataTocError
    \/ BookmarkDataRecord
    \/ BookmarkDataRecordError
    \/ BookmarkDataTocPanic
    \/ BookmarkDataRecordPanic
    \/ PushLoginItem
    \/ ReturnResults

Spec == Init /\ [][Next]_vars

\* ------------------------------------------------------------------------
\* The bundled-app registry reader: loginitem_apps
\* ------------------------------------------------------------------------

\* strings are sequences of characters here, so that `contains` and
\* `starts_with` are computed
Contains(s, sub) ==
    \E i \in 1..(Len(s) - Len(sub) + 1) : SubSeq(s, i, i + Len(sub) - 1) = sub

StartsWith(s, pre) == Len(s) >= Len(pre) /\ SubSeq(s, 1, Len(pre)) = pre

BUNDLED_APP_LOGINITEMS_PATH ==
    <<"/", "v", "a", "r", "/", "d", "b", "/", "c", "o", "m", ".", "a", "p", "p", "l",
      "e", ".", "x", "p", "c", ".", "l", "a", "u", "n", "c", "h", "d", "/">>

NeedleLoginitems ==
    <<"l", "o", "g", "i", "n", "i", "t", "e", "m", "s">>

PrefixVersion ==
    <<"v", "e", "r", "s", "i", "o", "n">>

NameLoginitems ==
    <<"l", "o", "g", "i", "n", "i", "t", "e", "m", "s", ".", "5", "0", "1", ".", "p",
      "l", "i", "s", "t">>

NameLoginitemsSuffix ==
    <<"a", ".", "l", "o", "g", "i", "n", "i", "t", "e", "m", "s">>

NameDisabled ==
    <<"d", "i", "s", "a", "b", "l", "e", "d", ".", "p", "l", "i", "s", "t">>

NameLoginitem ==
    <<"l", "o", "g", "i", "n", "i", "t", "e", "m", ".", "p", "l", "i", "s", "t">>

KeyVersion ==
    <<"v", "e", "r", "s", "i", "o", "n">>

KeyVersions ==
    <<"v", "e", "r", "s", "i", "o", "n", "s", "2">>

KeyDocker ==
    <<"c", "o", "m", ".", "d", "o", "c", "k", "e", "r", ".", "h", "e", "l", "p", "e",
      "r">>

KeyShield ==
    <<"c", "o", "m", ".", "s", "h", "i", "e", "l", "d", ".", "H", "e", "l", "p", "e",
      "r">>

KeyAVersion ==
    <<"a", "v", "e", "r", "s", "i", "o", "n">>

AppDocker ==
    <<"c", "o", "m", ".", "d", "o", "c", "k", "e", "r", ".", "d", "o", "c", "k", "e",
      "r">>

AppShield ==
    <<"c", "o", "m", ".", "s", "h", "i", "e", "l", "d">>

\* plist values of a registry plist
StringValue(chars) == [t |-> "String", v |-> chars]

IntegerValue == [t |-> "Integer", v |-> 3]

\* what plist::from_file makes of a directory entry
NotAPlist == [parses |-> FALSE]

Plist(kvs) == [parses |-> TRUE, dict |-> kvs]

\* a directory entry read_dir yields: an error, or a name and a content
BadDirEntry == [ok |-> FALSE]

DirEntry(name, plist) == [ok |-> TRUE, name |-> name, plist |-> plist]

\* the directory entries directories are generated from
DirEntries ==
    { BadDirEntry,
      DirEntry(NameDisabled, Plist(<< <<KeyDocker, StringValue(AppDocker)>> >>)),
      DirEntry(NameLoginitem, NotAPlist),
      DirEntry(NameLoginitems, NotAPlist),
      DirEntry(NameLoginitems, Plist(<<>>)),
      DirEntry(NameLoginitems, Plist(<< <<KeyVersion, IntegerValue>> >>)),
      DirEntry(NameLoginitems, Plist(<< <<KeyDocker, StringValue(<<>>)>> >>)),
      DirEntry(NameLoginitems,
               Plist(<< <<KeyDocker, StringValue(AppDocker)>>,
                        <<KeyVersion, IntegerValue>>,
                        <<KeyShield, StringValue(AppShield)>> >>)),
      DirEntry(NameLoginitemsSuffix,
               Plist(<< <<KeyVersions, StringValue(AppShield)>>,
                        <<KeyAVersion, StringValue(AppDocker)>> >>)),
      DirEntry(NameLoginitemsSuffix,
               Plist(<< <<KeyShield, StringValue(AppShield)>>,
                        <<KeyDocker, IntegerValue>>,
                        <<KeyAVersion, StringValue(AppDocker)>> >>)) }

Directories ==
    {[readable |-> FALSE]}
    \cup {[readable |-> TRUE, entries |-> es] : es \in SeqsUpTo(DirEntries, MaxEntries)}

\* entry.path().display(): the directory joined with the name of the entry
EntryPath(entry) == BUNDLED_APP_LOGINITEMS_PATH \o entry.name

InitApps ==
    /\ overflow_checks = FALSE
    /\ path = ""
    /\ file = [readable |-> FALSE]
    /\ pc = "idle"
    /\ loginitems_data = <<>>
    /\ idx = 0
    /\ loginitems_array = <<>>
    /\ core_data = <<>>
    /\ toc_records = <<>>
    /\ rec_i = 0
    /\ login_items_data = NewLoginItemsData
    /\ result = NoResult
    /\ apps_dir \in Directories
    /\ apps_pc = "start"
    /\ entry_i = 0
    /\ key_i = 0
    /\ loginitems = NewLoginItemsResults
    /\ loginitems_vec = <<>>
    /\ apps_result = NoResult
    /\ SystemIdle

ReturnApps(r) ==
    /\ apps_result' = r
    /\ apps_pc' = "done"

\* read_dir fails: `?` returns the io error
ReadDirError ==
    /\ apps_pc = "start"
    /\ ~apps_dir.readable
    /\ ReturnApps([st |-> "err"])
    /\ UNCHANGED <<system_vars, decoder_vars, apps_dir, entry_i, key_i, loginitems, loginitems_vec>>

ReadDir ==
    /\ apps_pc = "start"
    /\ apps_dir.readable
    /\ apps_pc' = "entry"
    /\ entry_i' = 1
    /\ UNCHANGED <<system_vars, decoder_vars, apps_dir, key_i, loginitems, loginitems_vec, apps_result>>

AtEntry == apps_pc = "entry" /\ entry_i <= Len(apps_dir.entries)

CurrentEntry == apps_dir.entries[entry_i]

\* `let entry = dir?;` on an entry that cannot be read
DirEntryError ==
    /\ AtEntry
    /\ ~CurrentEntry.ok
    /\ loginitems' = NewLoginItemsResults
    /\ ReturnApps([st |-> "err"])
    /\ UNCHANGED <<system_vars, decoder_vars, apps_dir, entry_i, key_i, loginitems_vec>>

\* the path does not contain "loginitems": continue
NotLoginitemsFile ==
    /\ AtEntry
    /\ CurrentEntry.ok
    /\ ~Contains(EntryPath(CurrentEntry), NeedleLoginitems)
    /\ loginitems' = NewLoginItemsResults
    /\ entry_i' = entry_i + 1
    /\ UNCHANGED <<system_vars, decoder_vars, apps_dir, apps_pc, key_i, loginitems_vec, apps_result>>

\* plist::from_file fails: warn, then push the document as allocated
PlistFileError ==
    /\ AtEntry
    /\ CurrentEntry.ok
    /\ Contains(EntryPath(CurrentEntry), NeedleLoginitems)
    /\ ~CurrentEntry.plist.parses
    /\ loginitems' = NewLoginItemsResults
    /\ loginitems_vec' = Append(loginitems_vec, NewLoginItemsResults)
    /\ entry_i' = entry_i + 1
    /\ UNCHANGED <<system_vars, decoder_vars, apps_dir, apps_pc, key_i, apps_result>>

\* plist::from_file succeeds: the loop over the keys begins
PlistFileOk ==
    /\ AtEntry
    /\ CurrentEntry.ok
    /\ Contains(EntryPath(CurrentEntry), NeedleLoginitems)
    /\ CurrentEntry.plist.parses
    /\ loginitems' = NewLoginItemsResults
    /\ key_i' = 1
    /\ apps_pc' = "key"
    /\ UNCHANGED <<system_vars, decoder_vars, apps_dir, entry_i, loginitems_vec, apps_result>>

AtKey == apps_pc = "key" /\ key_i <= Len(CurrentEntry.plist.dict)

CurrentKey == CurrentEntry.plist.dict[key_i][1]

CurrentValue == CurrentEntry.plist.dict[key_i][2]

\* a key that starts with "version": continue
VersionKey ==
    /\ AtKey
    /\ StartsWith(CurrentKey, PrefixVersion)
    /\ key_i' = key_i + 1
    /\ UNCHANGED <<system_vars, decoder_vars, apps_dir, apps_pc, entry_i, loginitems, loginitems_vec,
                   apps_result>>

\* `value.as_string().unwrap()` on a value that is not a string: the thread
\* panics
ValueUnwrapPanic ==
    /\ AtKey
    /\ ~StartsWith(CurrentKey, PrefixVersion)
    /\ CurrentValue.t # "String"
    /\ ReturnApps([st |-> "panic"])
    /\ UNCHANGED <<system_vars, decoder_vars, apps_dir, entry_i, key_i, loginitems, loginitems_vec>>

\* the record of a key is pushed and the path of the document set
PushBundledApp ==
    /\ AtKey
    /\ ~StartsWith(CurrentKey, PrefixVersion)
    /\ CurrentValue.t = "String"
    /\ loginitems' =
           [results |-> Append(loginitems.results,
                               [NewLoginItemsData EXCEPT !.is_bundled = TRUE,
                                                         !.app_id = CurrentValue.v,
                                                         !.app_binary = CurrentKey]),
            path |-> EntryPath(CurrentEntry)]
    /\ key_i' = key_i + 1
    /\ UNCHANGED <<system_vars, decoder_vars, apps_dir, apps_pc, entry_i, loginitems_vec, apps_result>>

\* all keys done: the document is pushed
PushLoginItemsResults ==
    /\ apps_pc = "key"
    /\ key_i > Len(CurrentEntry.plist.dict)
    /\ loginitems_vec' = Append(loginitems_vec, loginitems)
    /\ entry_i' = entry_i + 1
    /\ key_i' = 0
    /\ apps_pc' = "entry"
    /\ UNCHANGED <<system_vars, decoder_vars, apps_dir, loginitems, apps_result>>

\* all entries done: Ok(loginitems_vec)
ReturnLoginitemsVec ==
    /\ apps_pc = "entry"
    /\ entry_i > Len(apps_dir.entries)
    /\ ReturnApps([st |-> "ok", val |-> loginitems_vec])
    /\ UNCHANGED <<system_vars, decoder_vars, apps_dir, entry_i, key_i, loginitems, loginitems_vec>>

NextApps ==
    \/ ReadDirError
    \/ ReadDir
    \/ DirEntryError
    \/ NotLoginitemsFile
    \/ PlistFileError
    \/ PlistFileOk
    \/ VersionKey
    \/ ValueUnwrapPanic
    \/ PushBundledApp
    \/ PushLoginItemsResults
    \/ ReturnLoginitemsVec

SpecApps == InitApps /\ [][NextApps]_vars

\* parse_loginitems_path: the LoginItemError kinds its `?` can turn a failure
\* of parse_loginitems into.  A plist that cannot be read is the Plist kind, a
\* candidate that fails structural decoding the Bookmark kind; for a
\* candidate whose header cannot be read the kind is not determined.
LoginItemErrorKinds == {"Path", "Plist", "Bookmark"}

LoginItemErrorFrom(kind) ==
    IF kind = "plist" THEN {"Plist"}
    ELSE IF kind = "bookmark" THEN {"Bookmark"}
    ELSE LoginItemErrorKinds

\* ------------------------------------------------------------------------
\* The system scan: parse_loginitems_system
\* ------------------------------------------------------------------------

\* the most entries /Users/ has
MaxUsers == 2

base_directory == "/Users/"

loginitems_path ==
    "/Library/Application Support/com.apple.backgroundtaskmanagementagent/backgrounditems.btm"

\* what is at the backgrounditems.btm path of a user: nothing, or a file
NoBtm == [is_file |-> FALSE]

Btm(f) == [is_file |-> TRUE, file |-> f]

\* an entry read_dir yields for /Users/: an error, or a home directory
BadUserEntry == [ok |-> FALSE]

UserEntry(name, btm) == [ok |-> TRUE, path |-> base_directory \o name, btm |-> btm]

ObjectsFile(objs) ==
    [readable |-> TRUE, dict |-> << <<"$version", Str>>, <<"$objects", Arr(objs)>> >>]

\* the backgrounditems.btm files of the users: one that cannot be read, one
\* without `$objects`, documents with decodable and rejected candidates, and
\* documents whose candidate fails or overflows in bookmark_data
UserFiles ==
    { [readable |-> FALSE],
      [readable |-> TRUE, dict |-> << <<"$version", Str>> >>],
      ObjectsFile(<<Data(GoodA), Data(BadSig)>>),
      ObjectsFile(<<Data(GoodB), Data(Short)>>),
      ObjectsFile(<<Data(HeaderOnly)>>),
      ObjectsFile(<<Data(TocOffsetLow)>>),
      ObjectsFile(<<Data(MkBookmark(<<Entry(TARGET_CNID_PATH, Offset("arrout"))>>))>>),
      ObjectsFile(<<Data(MkBookmark(<<Entry(TARGET_PATH, toc_offset_size - 2)>>))>>) }

UserEntries ==
    {BadUserEntry, UserEntry("a", NoBtm), UserEntry("b", Btm(ObjectsFile(<<Data(GoodB)>>)))}
    \cup {UserEntry("a", Btm(f)) : f \in UserFiles}

\* three users, the second with any of the files
ThreeUsers ==
    {<<UserEntry("b", Btm(ObjectsFile(<<Data(GoodB)>>))), UserEntry("a", Btm(f)),
       UserEntry("b", Btm(ObjectsFile(<<Data(GoodB)>>)))>> : f \in UserFiles}

UsersDirectories ==
    {[readable |-> FALSE]}
    \cup {[readable |-> TRUE, entries |-> es] :
              es \in SeqsUpTo(UserEntries, MaxUsers) \cup ThreeUsers}

\* the registry directories of the system scan: at most one entry
RegistryDirectories ==
    {[readable |-> FALSE]}
    \cup {[readable |-> TRUE, entries |-> es] : es \in SeqsUpTo(DirEntries, 1)}

InitSystem ==
    /\ overflow_checks \in BOOLEAN
    /\ path = ""
    /\ file = [readable |-> FALSE]
    /\ pc = "idle"
    /\ loginitems_data = <<>>
    /\ idx = 0
    /\ loginitems_array = <<>>
    /\ core_data = <<>>
    /\ toc_records = <<>>
    /\ rec_i = 0
    /\ login_items_data = NewLoginItemsData
    /\ result = NoResult
    /\ apps_dir \in RegistryDirectories
    /\ apps_pc = "idle"
    /\ entry_i = 0
    /\ key_i = 0
    /\ loginitems = NewLoginItemsResults
    /\ loginitems_vec = <<>>
    /\ apps_result = NoResult
    /\ users \in UsersDirectories
    /\ system_pc = "start"
    /\ user_i = 0
    /\ system_loginitems_data = <<>>
    /\ system_result = NoResult

ReturnSystem(r) ==
    /\ system_result' = r
    /\ system_pc' = "done"

\* read_dir("/Users/") fails: Err(LoginItemError::Path)
ReadUsersError ==
    /\ system_pc = "start"
    /\ ~users.readable
    /\ ReturnSystem([st |-> "err", kind |-> "Path"])
    /\ UNCHANGED <<decoder_vars, apps_vars, users, user_i, system_loginitems_data>>

ReadUsers ==
    /\ system_pc = "start"
    /\ users.readable
    /\ system_pc' = "user"
    /\ user_i' = 1
    /\ UNCHANGED <<decoder_vars, apps_vars, users, system_loginitems_data, system_result>>

AtUser == system_pc = "user" /\ user_i <= Len(users.entries)

CurrentUser == users.entries[user_i]

\* format!("{}{}", entry.path().display(), loginitems_path)
PlistPath(entry) == entry.path \o loginitems_path

\* an entry that cannot be read: warn and continue
UserEntryError ==
    /\ AtUser
    /\ ~CurrentUser.ok
    /\ user_i' = user_i + 1
    /\ UNCHANGED <<decoder_vars, apps_vars, users, system_pc, system_loginitems_data,
                   system_result>>

\* mutant of NoBtmFile: a user without the file gets an empty document, as
\* the registry reader gives one to an entry it could not parse
NoBtmFile_PushEmpty ==
    /\ AtUser
    /\ CurrentUser.ok
    /\ ~CurrentUser.btm.is_file
    /\ system_loginitems_data' = Append(system_loginitems_data, [results |-> <<>>, path |-> ""])
    /\ user_i' = user_i + 1
    /\ UNCHANGED <<decoder_vars, apps_vars, users, system_pc, system_result>>

\* full_path.is_file() is false: nothing to do for this user
NoBtmFile ==
    /\ AtUser
    /\ CurrentUser.ok
    /\ ~CurrentUser.btm.is_file
    /\ user_i' = user_i + 1
    /\ UNCHANGED <<decoder_vars, apps_vars, users, system_pc, system_loginitems_data,
                   system_result>>

\* the call LoginItemsData::parse_loginitems(&plist_path)
ParseLoginitemsCall ==
    /\ AtUser
    /\ CurrentUser.ok
    /\ CurrentUser.btm.is_file
    /\ system_pc' = "parse"
    /\ path' = PlistPath(CurrentUser)
    /\ file' = CurrentUser.btm.file
    /\ pc' = "start"
    /\ loginitems_data' = <<>>
    /\ idx' = 0
    /\ loginitems_array' = <<>>
    /\ core_data' = <<>>
    /\ toc_records' = <<>>
    /\ rec_i' = 0
    /\ login_items_data' = NewLoginItemsData
    /\ result' = NoResult
    /\ UNCHANGED <<overflow_checks, apps_vars, users, user_i, system_loginitems_data,
                   system_result>>

ParseReturned == system_pc = "parse" /\ pc = "done"

\* Ok(data) => loginitems_data.push(data)
ParseLoginitemsOk ==
    /\ ParseReturned
    /\ result.st = "ok"
    /\ system_loginitems_data' =
           Append(system_loginitems_data, [results |-> result.results, path |-> result.path])
    /\ user_i' = user_i + 1
    /\ system_pc' = "user"
    /\ UNCHANGED <<decoder_vars, apps_vars, users, system_result>>

\* mutant of ParseLoginitemsErr: the failure of one user is logged and the
\* scan goes on with the next user
ParseLoginitemsErr_Continue ==
    /\ ParseReturned
    /\ result.st = "err"
    /\ user_i' = user_i + 1
    /\ system_pc' = "user"
    /\ UNCHANGED <<decoder_vars, apps_vars, users, system_loginitems_data, system_result>>

\* Err(err) => return Err(err)
ParseLoginitemsErr ==
    /\ ParseReturned
    /\ result.st = "err"
    /\ \E kind \in LoginItemErrorFrom(result.kind) :
           ReturnSystem([st |-> "err", kind |-> kind])
    /\ UNCHANGED <<decoder_vars, apps_vars, users, user_i, system_loginitems_data>>

\* parse_loginitems panicked: the panic unwinds through the scan
ParseLoginitemsPanic ==
    /\ ParseReturned
    /\ result.st = "panic"
    /\ ReturnSystem([st |-> "panic"])
    /\ UNCHANGED <<decoder_vars, apps_vars, users, user_i, system_loginitems_data>>

\* the loop over /Users/ is over: the call of the registry reader
LoginitemAppsCall ==
    /\ system_pc = "user"
    /\ user_i > Len(users.entries)
    /\ system_pc' = "apps"
    /\ apps_pc' = "start"
    /\ UNCHANGED <<decoder_vars, apps_dir, entry_i, key_i, loginitems, loginitems_vec,
                   apps_result, users, user_i, system_loginitems_data, system_result>>

AppsReturned == system_pc = "apps" /\ apps_pc = "done"

\* loginitems_data.append(&mut app_loginitems); Ok(loginitems_data)
LoginitemAppsOk ==
    /\ AppsReturned
    /\ apps_result.st = "ok"
    /\ system_loginitems_data' = system_loginitems_data \o apps_result.val
    /\ ReturnSystem([st |-> "ok", val |-> system_loginitems_data \o apps_result.val])
    /\ UNCHANGED <<decoder_vars, apps_vars, users, user_i>>

\* `?` on the result of the registry reader
LoginitemAppsErr ==
    /\ AppsReturned
    /\ apps_result.st = "err"
    /\ \E kind \in LoginItemErrorFrom("io") :
           ReturnSystem([st |-> "err", kind |-> kind])
    /\ UNCHANGED <<decoder_vars, apps_vars, users, user_i, system_loginitems_data>>

\* the registry reader panicked: the panic unwinds through the scan
LoginitemAppsPanic ==
    /\ AppsReturned
    /\ apps_result.st = "panic"
    /\ ReturnSystem([st |-> "panic"])
    /\ UNCHANGED <<decoder_vars, apps_vars, users, user_i, system_loginitems_data>>

NextSystem ==
    \/ ReadUsersError
    \/ ReadUsers
    \/ UserEntryError
    \/ NoBtmFile
    \/ ParseLoginitemsCall
    \/ ParseLoginitemsOk
    \/ ParseLoginitemsErr
    \/ ParseLoginitemsPanic
    \/ LoginitemAppsCall
    \/ LoginitemAppsOk
    \/ LoginitemAppsErr
    \/ LoginitemAppsPanic
    \/ Next
    \/ NextApps

SpecSystem == InitSystem /\ [][NextSystem]_vars

\* ------------------------------------------------------------------------
\* Vocabulary of the properties
\* ------------------------------------------------------------------------

Done == pc = "done"

\* the raw bytes of a blob say "book" and data offset 48
RawSignatureOk(blob) == SubSeq(blob, 1, 4) = <<98, 111, 111, 107>>

RawDataOffsetOk(blob) == SubSeq(blob, 13, 16) = <<48, 0, 0, 0>>

HeaderSized(blob) == Len(blob) >= 48

LooksLikeBookmark(blob) == HeaderSized(blob) /\ RawSignatureOk(blob) /\ RawDataOffsetOk(blob)

\* the whole decode of a blob that passed the header check
Decode(blob) == bookmark_data(Drop(blob, 48), overflow_checks)

\* the top-level mapping has a key `$objects` whose value is an array
HasObjectsArray(f) ==
    /\ f.readable
    /\ \E i \in 1..Len(f.dict) : f.dict[i][1] = "$objects" /\ f.dict[i][2].t = "Array"

ObjectsOf(f) ==
    f.dict[CHOOSE i \in 1..Len(f.dict) :
               f.dict[i][1] = "$objects" /\ f.dict[i][2].t = "Array"][2].v

\* the blobs of one entry of `$objects`, by the filtering rule: a direct blob,
\* or the blobs of at least 48 bytes among the values of a dictionary
BlobsOfEntry(e) ==
    IF e.t = "Data" THEN <<e.v>>
    ELSE IF e.t = "Dictionary"
         THEN LET big == SelectSeq(e.v, LAMBDA kv : kv[2].t = "Data" /\ HeaderSized(kv[2].v))
              IN  [i \in 1..Len(big) |-> big[i][2].v]
    ELSE <<>>

\* the blobs of the document in traversal order
Traversal(f) ==
    Flatten([i \in 1..Len(ObjectsOf(f)) |-> BlobsOfEntry(ObjectsOf(f)[i])])

\* ------------------------------------------------------------------------
\* C1: in parse_loginitems, when a candidate passes the header check and its
\* decode by bookmark_data fails, the call ends with an error and without a
\* document, however many earlier candidates were decoded; it ends by a
\* panic instead of an Err value only if the decode of some candidate
\* panics.
\* ------------------------------------------------------------------------

DecodeFails(blob) == LooksLikeBookmark(blob) /\ Decode(blob).st # "ok"

C1_DecodeFailureAbortsDocument ==
    (Done /\ \E i \in 1..Len(loginitems_data) : DecodeFails(loginitems_data[i]))
    => /\ result.st \in {"err", "panic"}
       /\ result.st = "panic" =>
              \E j \in 1..Len(loginitems_data) :
                  /\ LooksLikeBookmark(loginitems_data[j])
                  /\ Decode(loginitems_data[j]).st = "panic"

\* an earlier candidate was decoded and pushed, then a later one failed
C1_Witness ==
    /\ Done
    /\ result = [st |-> "err", kind |-> "bookmark"]
    /\ Len(loginitems_array) >= 1
    /\ DecodeFails(loginitems_data[idx])

\* ------------------------------------------------------------------------
\* C2: a candidate of at least 48 bytes whose signature is not "book" or
\* whose data offset is not 48 adds no record and raises no error, and the
\* loop goes on to the next candidate.
\* ------------------------------------------------------------------------

RejectedCandidate(blob) ==
    HeaderSized(blob) /\ (~RawSignatureOk(blob) \/ ~RawDataOffsetOk(blob))

C2_MismatchRejectedSilently ==
    [][(AtCandidate /\ RejectedCandidate(loginitems_data[idx]))
       => /\ idx' = idx + 1
          /\ pc' = "header"
          /\ loginitems_array' = loginitems_array
          /\ result' = NoResult]_vars

\* a candidate with the signature "book" and data offset 40 was passed over
\* and another candidate is left
C2_Witness ==
    /\ pc = "header"
    /\ idx > 1
    /\ idx <= Len(loginitems_data)
    /\ RawSignatureOk(loginitems_data[idx - 1])
    /\ RejectedCandidate(loginitems_data[idx - 1])
    /\ result = NoResult

\* ------------------------------------------------------------------------
\* C3: the locator emits only blobs of at least 48 bytes, whether the blob
\* is a direct entry of `$objects` or a value of a dictionary in it, so no
\* short blob reaches the decoder or causes an error.
\* ------------------------------------------------------------------------

C3_ShortBlobNeverCandidate ==
    /\ \A i \in 1..Len(loginitems_data) : HeaderSized(loginitems_data[i])
    /\ result # [st |-> "err", kind |-> "header"]

\* ------------------------------------------------------------------------
\* C4: a plist without a key `$objects`, or whose `$objects` is not an
\* array, gives no candidate, and parse_loginitems succeeds with zero
\* records.
\* ------------------------------------------------------------------------

C4_NoObjectsIsEmptySuccess ==
    (Done /\ file.readable /\ ~HasObjectsArray(file))
    => /\ loginitems_data = <<>>
       /\ result.st = "ok"
       /\ result.results = <<>>

\* the plist has a key `$objects` that is not an array, and an array elsewhere
C4_Witness ==
    /\ Done
    /\ file.readable
    /\ \E i \in 1..Len(file.dict) : file.dict[i][1] = "$objects"
    /\ \E i \in 1..Len(file.dict) : file.dict[i][2].t = "Array"
    /\ ~HasObjectsArray(file)
    /\ result.st = "ok"

\* ------------------------------------------------------------------------
\* C5: the records of a document are the decoded candidates in the
\* traversal order of their blobs (array order of `$objects`, value order
\* inside a dictionary); rejected candidates are left out and the order of
\* the others is kept.
\* ------------------------------------------------------------------------

DecodedInOrder(blobs) ==
    LET kept == SelectSeq(blobs, LooksLikeBookmark)
    IN  [i \in 1..Len(kept) |-> Decode(kept[i]).val]

C5_RecordsInTraversalOrder ==
    (Done /\ result.st = "ok" /\ HasObjectsArray(file))
    => result.results = DecodedInOrder(Traversal(file))

\* two different records around a rejected candidate, one from a dictionary
C5_Witness ==
    /\ Done
    /\ result.st = "ok"
    /\ Len(result.results) >= 2
    /\ result.results[1] # result.results[2]
    /\ Len(loginitems_data) > Len(result.results)
    /\ \E i \in 1..Len(ObjectsOf(file)) : ObjectsOf(file)[i].t = "Dictionary"

\* ------------------------------------------------------------------------
\* C6: every document returned carries the path it was read from, also
\* when the plist yields no candidate blob.
\* ------------------------------------------------------------------------

C6_DocumentCarriesPath ==
    (Done /\ result.st = "ok") => result.path = path

\* ------------------------------------------------------------------------
\* C7: target_flags and volume_flag hold at most 3 elements in the record
\* under construction after every TOC entry, and in every record produced,
\* whatever the length of the Data payload.
\* ------------------------------------------------------------------------

FlagsBounded(r) == Len(r.target_flags) <= 3 /\ Len(r.volume_flag) <= 3

C7_AtMostThreeFlags ==
    /\ FlagsBounded(login_items_data)
    /\ \A i \in 1..Len(loginitems_array) : FlagsBounded(loginitems_array[i])
    /\ result.st = "ok" => \A i \in 1..Len(result.results) : FlagsBounded(result.results[i])

\* a TOC entry with a Data payload of 32 bytes has just been processed
C7_Witness ==
    /\ pc = "record"
    /\ rec_i > 1
    /\ toc_records[rec_i - 1].record_type = U32(TARGET_FLAGS)
    /\ bookmark_standard_data(core_data, toc_records[rec_i - 1], overflow_checks).val.data_length
           = U32(32)
    /\ Len(login_items_data.target_flags) = 3

\* ------------------------------------------------------------------------
\* C8: every record bookmark_data decodes has as many path components as
\* catalog node ids.
\* ------------------------------------------------------------------------

C8_PathAndCnidSameLength ==
    \A i \in 1..Len(loginitems_array) :
        Len(loginitems_array[i].path) = Len(loginitems_array[i].cnid_path)

\* ------------------------------------------------------------------------
\* C9: the decoded record does not depend on the order of the TOC entries:
\* decoding the same heap with the entries permuted gives the same record,
\* or fails when the decode at hand failed.
\* As claimed: for every list of TOC entries.  As amended: for every list of
\* TOC entries whose keys are pairwise distinct.
\* ------------------------------------------------------------------------

Perms(n) == {p \in [1..n -> 1..n] : \A i, j \in 1..n : p[i] = p[j] => i = j}

Permuted(seq, p) == [i \in 1..Len(seq) |-> seq[p[i]]]

DecodeToc(toc) == bookmark_data_loop(core_data, toc, 1, NewLoginItemsData, overflow_checks)

\* the loop over the TOC records has processed every record
DecodeComplete == pc = "record" /\ rec_i > Len(toc_records)

\* the loop over the TOC records has ended with an error or a panic
DecodeFailed == Done /\ rec_i >= 1 /\ result.st \in {"err", "panic"}

OrderIrrelevant ==
    /\ DecodeComplete =>
           \A p \in Perms(Len(toc_records)) :
               DecodeToc(Permuted(toc_records, p)) = [st |-> "ok", val |-> login_items_data]
    /\ DecodeFailed =>
           \A p \in Perms(Len(toc_records)) :
               DecodeToc(Permuted(toc_records, p)).st # "ok"

KeysDistinct(toc) ==
    \A i, j \in 1..Len(toc) : toc[i].record_type = toc[j].record_type => i = j

C9_OrderIrrelevant_AsClaimed == OrderIrrelevant

C9_OrderIrrelevantForDistinctKeys == KeysDistinct(toc_records) => OrderIrrelevant

\* two entries with different keys have each set a field
C9_Witness ==
    /\ DecodeComplete
    /\ Len(toc_records) >= 2
    /\ KeysDistinct(toc_records)
    /\ Cardinality({f \in DOMAIN login_items_data :
                        login_items_data[f] # NewLoginItemsData[f]}) >= 2

\* ------------------------------------------------------------------------
\* C10: when the typed record of a TOC entry does not have the type its key
\* expects, the record under construction is left as it was, the decode
\* does not fail and the loop goes on to the next TOC entry.
\* As claimed: for every such entry.  As amended: provided that, when the
\* typed record is an array, each of its element offsets points at a typed
\* record that lies inside the heap.
\* ------------------------------------------------------------------------

\* the typed record at data-region offset o lies inside the heap
WellFormedAt(core, o) ==
    /\ o[1] = 0
    /\ o[2] >= 4
    /\ o[2] + 4 <= Len(core)
    /\ LET len == le_u32(SubSeq(core, o[2] - 3, o[2]))
       IN  len[1] = 0 /\ o[2] + 4 + len[2] <= Len(core)

RawTypeAt(core, o) == le_u32(SubSeq(core, o[2] + 1, o[2] + 4))

RawPayloadAt(core, o) ==
    SubSeq(core, o[2] + 5, o[2] + 4 + le_u32(SubSeq(core, o[2] - 3, o[2]))[2])

\* the element offsets of an array payload of 4k bytes, k >= 1
RawElements(payload) ==
    IF Len(payload) % 4 = 0
    THEN [i \in 1..(Len(payload) \div 4) |-> le_u32(SubSeq(payload, 4 * i - 3, 4 * i))]
    ELSE <<>>

ExpectedScalarType ==
    (TARGET_FLAGS :> DATA_TYPE) @@ (TARGET_CREATION_DATE :> DATE)
    @@ (VOLUME_PATH :> STRING_TYPE) @@ (VOLUME_URL :> URL)
    @@ (VOLUME_NAME :> STRING_TYPE) @@ (VOLUME_UUID :> STRING_TYPE)
    @@ (VOLUME_SIZE :> NUMBER_EIGHT_BYTE) @@ (VOLUME_CREATION :> DATE)
    @@ (VOLUME_FLAGS :> DATA_TYPE) @@ (VOLUME_ROOT :> BOOL_TRUE)
    @@ (LOCALIZED_NAME :> STRING_TYPE) @@ (SECURITY_EXTENSION :> DATA_TYPE)
    @@ (CREATOR_USERNAME :> STRING_TYPE) @@ (CONTAIN_FOLDER_INDEX :> NUMBER_FOUR_BYTE)
    @@ (CREATOR_UID :> NUMBER_FOUR_BYTE) @@ (CREATION_OPTIONS :> NUMBER_FOUR_BYTE)

ExpectedElementType == (TARGET_PATH :> STRING_TYPE) @@ (TARGET_CNID_PATH :> NUMBER_EIGHT_BYTE)

ElementsResolve(core, o) ==
    \A k \in 1..Len(RawElements(RawPayloadAt(core, o))) :
        WellFormedAt(core, RawElements(RawPayloadAt(core, o))[k])

\* the entry's typed record lies inside the heap and has not the expected type
TypeMismatch(core, rec) ==
    /\ rec.record_type[1] = 0
    /\ WellFormedAt(core, rec.data_offset)
    /\ LET key == rec.record_type[2]
           type == RawTypeAt(core, rec.data_offset)
           elements == RawElements(RawPayloadAt(core, rec.data_offset))
       IN  \/ /\ key \in DOMAIN ExpectedScalarType
              /\ type # U32(ExpectedScalarType[key])
           \/ /\ key \in DOMAIN ExpectedElementType
              /\ \/ type # U32(ARRAY_TYPE)
                 \/ /\ ElementsResolve(core, rec.data_offset)
                    /\ \A k \in 1..Len(elements) :
                           RawTypeAt(core, elements[k]) # U32(ExpectedElementType[key])

RecordSkipped ==
    /\ pc' = "record"
    /\ rec_i' = rec_i + 1
    /\ login_items_data' = login_items_data
    /\ result' = NoResult

PastHeap(core, o) == (o[1] > 0 \/ o[2] >= 4) /\ ~WellFormedAt(core, o)

LowOffset(o) == o[1] = 0 /\ o[2] < 4

\* the typed record of the entry is an array whose payload is a sequence of
\* element offsets
ArrayAt(core, rec) ==
    /\ WellFormedAt(core, rec.data_offset)
    /\ RawTypeAt(core, rec.data_offset) = U32(ARRAY_TYPE)

ElementsAt(core, rec) == RawElements(RawPayloadAt(core, rec.data_offset))

EntryPastHeap(core, rec) ==
    \/ PastHeap(core, rec.data_offset)
    \/ /\ ArrayAt(core, rec)
       /\ \E k \in 1..Len(ElementsAt(core, rec)) : PastHeap(core, ElementsAt(core, rec)[k])

EntryLow(core, rec) ==
    \/ LowOffset(rec.data_offset)
    \/ /\ ArrayAt(core, rec)
       /\ \E k \in 1..Len(ElementsAt(core, rec)) : LowOffset(ElementsAt(core, rec)[k])

C11_RecordPastHeapFailsDecode ==
    (/\ pc \in {"record", "done"}
     /\ \E i \in 1..Len(toc_records) : EntryPastHeap(core_data, toc_records[i]))
    => /\ ~DecodeComplete
       /\ Done => \/ result = [st |-> "err", kind |-> "bookmark"]
                  \/ /\ result.st = "panic"
                     /\ overflow_checks
                     /\ \E j \in 1..Len(toc_records) : EntryLow(core_data, toc_records[j])

\* a well-formed entry has set a field, then the decode failed at an entry
\* whose header lies inside the heap and whose declared payload does not
C11_Witness ==
    /\ Done
    /\ result = [st |-> "err", kind |-> "bookmark"]
    /\ Len(toc_records) = 2
    /\ rec_i = 2
    /\ ~EntryPastHeap(core_data, toc_records[1])
    /\ login_items_data # NewLoginItemsData
    /\ PastHeap(core_data, toc_records[2].data_offset)
    /\ toc_records[2].data_offset[2] + 4 <= Len(core_data)

\* ------------------------------------------------------------------------
\* C12: every failure parse_loginitems_path returns is one of the
\* LoginItemError kinds: a plist that cannot be opened or parsed always
\* fails, with the Plist kind, and the failure of a candidate that passed
\* the header check has the Bookmark kind.
\* ------------------------------------------------------------------------

HeaderOnlyCandidate(blob) == Len(blob) = 48 /\ LooksLikeBookmark(blob)

C13_HeaderOnlyIsBookmarkError ==
    [][(AtCandidate /\ HeaderOnlyCandidate(loginitems_data[idx]))
       => /\ pc' = "done"
          /\ result' = [st |-> "err", kind |-> "bookmark"]
          /\ idx' = idx
          /\ loginitems_array' = loginitems_array]_vars

\* the call has ended at a header-only candidate that followed a decoded one
C13_Witness ==
    /\ Done
    /\ result = [st |-> "err", kind |-> "bookmark"]
    /\ idx >= 2
    /\ HeaderOnlyCandidate(loginitems_data[idx])
    /\ Len(loginitems_array) >= 1

\* ------------------------------------------------------------------------
\* C14: a bookmark whose TOC header and body can be read and whose TOC
\* declares zero records is decoded, and its record has the default value
\* in every field: empty sequences and strings, zero numbers, false
\* booleans.
\* ------------------------------------------------------------------------

\* the raw bytes of the blob: header, TOC offset t >= 4, a heap of t - 4
\* bytes, 8 bytes of TOC header, 12 bytes of TOC body with number_of_records 0
ZeroRecordToc(blob) ==
    /\ LooksLikeBookmark(blob)
    /\ Len(blob) >= 52
    /\ LET t == le_u32(SubSeq(blob, 49, 52))
       IN  /\ t[1] = 0
           /\ t[2] >= 4
           /\ Len(blob) >= 48 + t[2] + 20
           /\ SubSeq(blob, 48 + t[2] + 17, 48 + t[2] + 20) = <<0, 0, 0, 0>>

AllDefault(r) ==
    /\ r.path = <<>> /\ r.cnid_path = <<>> /\ r.target_flags = <<>> /\ r.volume_flag = <<>>
    /\ r.volume_path = <<>> /\ r.volume_url = <<>> /\ r.volume_name = <<>>
    /\ r.volume_uuid = <<>> /\ r.localized_name = <<>> /\ r.security_extension = <<>>
    /\ r.username = <<>> /\ r.app_id = <<>> /\ r.app_binary = <<>>
    /\ r.creation = <<0, 0, 0, 0, 0, 0, 0, 0>>
    /\ r.volume_creation = <<0, 0, 0, 0, 0, 0, 0, 0>>
    /\ r.volume_size = <<0, 0, 0, 0, 0, 0, 0, 0>>
    /\ r.uid = <<0, 0, 0, 0>> /\ r.creation_options = <<0, 0, 0, 0>>
    /\ r.folder_index = <<0, 0, 0, 0>>
    /\ r.volume_root = FALSE /\ r.is_bundled = FALSE

\* the number of candidates up to the i-th that pass the header check
KeptUpTo(i) == Len(SelectSeq(SubSeq(loginitems_data, 1, i), LooksLikeBookmark))

C14_ZeroRecordsDecodeToDefaults ==
    /\ \A i \in 1..Len(loginitems_data) :
           (i < idx /\ ZeroRecordToc(loginitems_data[i]))
           => /\ Len(loginitems_array) >= KeptUpTo(i)
              /\ AllDefault(loginitems_array[KeptUpTo(i)])
    /\ (Done /\ idx \in 1..Len(loginitems_data)) => ~ZeroRecordToc(loginitems_data[idx])
    /\ (Done /\ result.st = "ok" /\ Len(loginitems_data) = 1
             /\ ZeroRecordToc(loginitems_data[1]))
       => Len(result.results) = 1 /\ AllDefault(result.results[1])

\* a document whose one candidate has a TOC of zero records was returned
C14_Witness ==
    /\ Done
    /\ result.st = "ok"
    /\ Len(loginitems_data) = 1
    /\ ZeroRecordToc(loginitems_data[1])
    /\ Len(result.results) = 1

\* ------------------------------------------------------------------------
\* C15: a string record whose payload is not valid UTF-8 does not fail the
\* decode.  Under a scalar string key the entry leaves the record under
\* construction as it was (the field stays empty when no earlier entry set
\* it); as an element of the array under key 0x1004 the component is left
\* out and the valid components are appended in order; in both cases the
\* loop goes on to the next TOC entry.
\* ------------------------------------------------------------------------

StringKeys == {VOLUME_PATH, VOLUME_NAME, VOLUME_UUID, LOCALIZED_NAME, CREATOR_USERNAME}

InvalidStringAt(core, o) ==
    /\ WellFormedAt(core, o)
    /\ RawTypeAt(core, o) = U32(STRING_TYPE)
    /\ ~Utf8Valid(RawPayloadAt(core, o))

ValidStringAt(core, o) ==
    /\ WellFormedAt(core, o)
    /\ RawTypeAt(core, o) = U32(STRING_TYPE)
    /\ Utf8Valid(RawPayloadAt(core, o))

\* the valid strings among the elements, in order
ValidPathStrings(core, elements) ==
    LET kept == SelectSeq(elements, LAMBDA e : ValidStringAt(core, e))
    IN  [k \in 1..Len(kept) |-> RawPayloadAt(core, kept[k])]

ScalarInvalidString(core, rec) ==
    /\ rec.record_type[1] = 0
    /\ rec.record_type[2] \in StringKeys
    /\ InvalidStringAt(core, rec.data_offset)

PathWithInvalidString(core, rec) ==
    /\ rec.record_type = U32(TARGET_PATH)
    /\ ArrayAt(core, rec)
    /\ ElementsResolve(core, rec.data_offset)
    /\ \E k \in 1..Len(ElementsAt(core, rec)) : InvalidStringAt(core, ElementsAt(core, rec)[k])

C15_InvalidUtf8IsNotFatal ==
    [][/\ (AtRecord /\ ScalarInvalidString(core_data, toc_records[rec_i])) => RecordSkipped
       /\ (AtRecord /\ PathWithInvalidString(core_data, toc_records[rec_i]))
          => /\ pc' = "record"
             /\ rec_i' = rec_i + 1
             /\ result' = NoResult
             /\ login_items_data' =
                    [login_items_data EXCEPT !.path =
                         @ \o ValidPathStrings(core_data,
                                  ElementsAt(core_data, toc_records[rec_i]))]]_vars

\* an invalid string under key 0x2010, then a path array with an invalid and
\* a valid component, and the decode is complete
C15_Witness ==
    /\ DecodeComplete
    /\ Len(toc_records) = 2
    /\ toc_records[1].record_type = U32(VOLUME_NAME)
    /\ ScalarInvalidString(core_data, toc_records[1])
    /\ PathWithInvalidString(core_data, toc_records[2])
    /\ login_items_data.volume_name = <<>>
    /\ login_items_data.path = << <<66>> >>

\* ------------------------------------------------------------------------
\* C16: a Data record under key 0xF080 populates the read-write security
\* extension of the record and a Data record under key 0xF081 the read-only
\* one, each independently of the other; a bookmark with key 0xF081 alone
\* has a non-empty read-only and an empty read-write extension.
\* ------------------------------------------------------------------------

SecurityExtensionRoKey == SECURITY_EXTENSION + 1

\* the read-write extension of a record: the field key 0xF080 is stored in
SecurityExtensionRw(r) ==
    IF "security_extension_rw" \in DOMAIN r THEN r.security_extension_rw
    ELSE r.security_extension

\* the read-only extension of a record, empty when the record has no such
\* field
SecurityExtensionRo(r) ==
    IF "security_extension_ro" \in DOMAIN r THEN r.security_extension_ro ELSE <<>>

\* the entry's typed record is a Data record with a UTF-8 payload
ValidDataAt(core, o) ==
    /\ WellFormedAt(core, o)
    /\ RawTypeAt(core, o) = U32(DATA_TYPE)
    /\ Utf8Valid(RawPayloadAt(core, o))

\* the payload of the last entry with the key, empty when there is none
LastDataUnder(core, toc, key) ==
    LET at == {i \in 1..Len(toc) : toc[i].record_type = U32(key)}
    IN  IF at = {} THEN <<>>
        ELSE LET last == CHOOSE i \in at : \A j \in at : j <= i
             IN  RawPayloadAt(core, toc[last].data_offset)

C16_SecurityExtensionKeys ==
    (/\ DecodeComplete
     /\ \A i \in 1..Len(toc_records) :
            toc_records[i].record_type \in {U32(SECURITY_EXTENSION), U32(SecurityExtensionRoKey)}
            => ValidDataAt(core_data, toc_records[i].data_offset))
    => /\ SecurityExtensionRw(login_items_data)
              = LastDataUnder(core_data, toc_records, SECURITY_EXTENSION)
       /\ SecurityExtensionRo(login_items_data)
              = LastDataUnder(core_data, toc_records, SecurityExtensionRoKey)

\* ------------------------------------------------------------------------
\* C17: in every decoded record has_executable_flag is true exactly when
\* target_flags has a first element whose bit 0x02 is set, and false when
\* target_flags is empty.
\* ------------------------------------------------------------------------

\* has_executable_flag of a record, false when the record has no such field
HasExecutableFlag(r) ==
    IF "has_executable_flag" \in DOMAIN r THEN r.has_executable_flag ELSE FALSE

\* bit 0x02 of a 64-bit value (8 bytes, most significant first)
ExecutableBit(flag) == (flag[8] \div 2) % 2 = 1

C17_HasExecutableFlagDerived ==
    \A i \in 1..Len(loginitems_array) :
        HasExecutableFlag(loginitems_array[i])
            = (/\ loginitems_array[i].target_flags # <<>>
               /\ ExecutableBit(loginitems_array[i].target_flags[1]))

\* ------------------------------------------------------------------------
\* C18: for every registry plist the reader emits one record per top-level
\* key that does not start with "version", in the key order of the plist,
\* with is_bundled = true, app_binary = the key and app_id = the value; the
\* keys that start with "version" emit nothing.
\* ------------------------------------------------------------------------

AppsDone == apps_pc = "done"

NonVersionKeys(dict) == SelectSeq(dict, LAMBDA kv : ~StartsWith(kv[1], PrefixVersion))

ExpectedBundled(dict) ==
    [k \in 1..Len(NonVersionKeys(dict)) |->
         [app_binary |-> NonVersionKeys(dict)[k][1],
          app_id |-> NonVersionKeys(dict)[k][2].v,
          is_bundled |-> TRUE]]

Emitted(doc) ==
    [k \in 1..Len(doc.results) |->
         [app_binary |-> doc.results[k].app_binary,
          app_id |-> doc.results[k].app_id,
          is_bundled |-> doc.results[k].is_bundled]]

\* the entries the reader opens as plists, in directory order
OpenedEntries ==
    IF apps_dir.readable
    THEN SelectSeq(apps_dir.entries,
                   LAMBDA e : e.ok /\ Contains(EntryPath(e), NeedleLoginitems))
    ELSE <<>>

\* the call has ended inside the key loop of a registry plist
EndedInsidePlist ==
    /\ AppsDone
    /\ apps_dir.readable
    /\ entry_i \in 1..Len(apps_dir.entries)
    /\ CurrentEntry.ok
    /\ Contains(EntryPath(CurrentEntry), NeedleLoginitems)
    /\ CurrentEntry.plist.parses

C18_OneRecordPerNonVersionKey ==
    /\ apps_pc = "key" =>
           Emitted(loginitems) = ExpectedBundled(SubSeq(CurrentEntry.plist.dict, 1, key_i - 1))
    /\ \A j \in 1..Len(loginitems_vec) :
           OpenedEntries[j].plist.parses
           => Emitted(loginitems_vec[j]) = ExpectedBundled(OpenedEntries[j].plist.dict)
    /\ ~EndedInsidePlist

\* ------------------------------------------------------------------------
\* C19: in the registry reader a non-version key whose value is not a string
\* is skipped: the reader emits no record for it, neither returns nor
\* crashes, and goes on with the next key.
\* ------------------------------------------------------------------------

C19_NonStringValueSkipped ==
    [][(/\ AtKey
        /\ ~StartsWith(CurrentKey, PrefixVersion)
        /\ CurrentValue.t # "String")
       => /\ apps_pc' = "key"
          /\ key_i' = key_i + 1
          /\ loginitems' = loginitems
          /\ loginitems_vec' = loginitems_vec
          /\ apps_result' = NoResult]_vars

\* ------------------------------------------------------------------------
\* C20: the registry scan returns one document per directory entry whose
\* name contains "loginitems" and that parses as a plist, in directory
\* order, each with the path of its entry; the other entries add no
\* document.
\* ------------------------------------------------------------------------

RegistryPlists ==
    SelectSeq(apps_dir.entries,
              LAMBDA e : e.ok /\ Contains(e.name, NeedleLoginitems) /\ e.plist.parses)

C20_OneDocumentPerRegistryPlist ==
    (AppsDone /\ apps_result.st = "ok")
    => /\ Len(apps_result.val) = Len(RegistryPlists)
       /\ \A j \in 1..Len(apps_result.val) :
              j <= Len(RegistryPlists) => apps_result.val[j].path = EntryPath(RegistryPlists[j])

\* ------------------------------------------------------------------------
\* C21: every record with is_bundled = true has an empty path and a
\* non-empty app_id and app_binary, and every record of the bookmark decoder
\* has is_bundled = false and an empty app_id and app_binary.
\* ------------------------------------------------------------------------

BundledRecordOk(r) ==
    r.is_bundled => r.path = <<>> /\ r.app_id # <<>> /\ r.app_binary # <<>>

DecodedRecordOk(r) == ~r.is_bundled /\ r.app_id = <<>> /\ r.app_binary = <<>>

C21_BundledRecordsShape ==
    /\ \A k \in 1..Len(loginitems.results) : BundledRecordOk(loginitems.results[k])
    /\ \A j \in 1..Len(loginitems_vec) :
           \A k \in 1..Len(loginitems_vec[j].results) :
               BundledRecordOk(loginitems_vec[j].results[k])
    /\ DecodedRecordOk(login_items_data)
    /\ \A i \in 1..Len(loginitems_array) : DecodedRecordOk(loginitems_array[i])

\* ------------------------------------------------------------------------
\* C22: parse_loginitems_system returns the documents of the per-user
\* backgrounditems.btm files in the order of /Users/, followed by all the
\* documents of the registry scan; a user without the file contributes
\* nothing, and when no document is found the call succeeds with an empty
\* sequence.
\* ------------------------------------------------------------------------

SystemDone == system_pc = "done"

\* the users that have the file, in the order of /Users/
UsersWithFile ==
    IF users.readable
    THEN SelectSeq(users.entries, LAMBDA e : e.ok /\ e.btm.is_file)
    ELSE <<>>

\* the records of the document of a file, from its blobs
RecordsOfFile(f) == IF HasObjectsArray(f) THEN DecodedInOrder(Traversal(f)) ELSE <<>>

C22_UsersThenRegistry ==
    /\ (SystemDone /\ system_result.st = "ok") =>
           /\ Len(system_result.val) = Len(UsersWithFile) + Len(apps_result.val)
           /\ \A j \in 1..Len(UsersWithFile) :
                  system_result.val[j].results = RecordsOfFile(UsersWithFile[j].btm.file)
           /\ SubSeq(system_result.val, Len(UsersWithFile) + 1, Len(system_result.val))
                  = apps_result.val
    /\ (SystemDone /\ users.readable /\ UsersWithFile = <<>>
           /\ apps_result = [st |-> "ok", val |-> <<>>]) =>
           system_result = [st |-> "ok", val |-> <<>>]

\* two users with different documents, a third entry without the file or one
\* that cannot be read is not needed: the registry adds a bundled document
C22_Witness ==
    /\ SystemDone
    /\ system_result.st = "ok"
    /\ Len(UsersWithFile) = 2
    /\ Len(system_result.val) = 3
    /\ system_result.val[1].results # <<>>
    /\ system_result.val[2].results # <<>>
    /\ system_result.val[1].results # system_result.val[2].results
    /\ system_result.val[3].results # <<>>
    /\ system_result.val[3].results[1].is_bundled

\* no user has the file and the registry holds no plist: Ok of the empty
\* sequence
C22_WitnessEmpty ==
    /\ SystemDone
    /\ users.readable
    /\ Len(users.entries) = 2
    /\ UsersWithFile = <<>>
    /\ system_result = [st |-> "ok", val |-> <<>>]

\* ------------------------------------------------------------------------
\* C23: every offset read from the blob is checked before it is used: a TOC
\* offset, an entry's data offset or an array element offset outside the
\* data region, also one below 4, and any number of records, make
\* bookmark_data return an error value; no subtraction or multiplication on
\* them overflows or panics.
\* ------------------------------------------------------------------------

\* the TOC offset of a blob, read from its bytes
RawTocOffset(blob) == le_u32(SubSeq(blob, min_bookmark_size + 1, min_bookmark_size + SizeU32))

\* the call ended in the candidate at idx, whose TOC offset is below 4
EndedAtLowTocOffset ==
    /\ Done
    /\ idx \in 1..Len(loginitems_data)
    /\ LooksLikeBookmark(loginitems_data[idx])
    /\ Len(loginitems_data[idx]) >= min_bookmark_size + SizeU32
    /\ LowOffset(RawTocOffset(loginitems_data[idx]))

\* the call ended in the TOC entry at rec_i, whose data offset or one of
\* whose array elements is below 4
EndedAtLowDataOffset ==
    /\ Done
    /\ rec_i \in 1..Len(toc_records)
    /\ EntryLow(core_data, toc_records[rec_i])

C23_OffsetsBoundsChecked ==
    /\ result.st # "panic"
    /\ EndedAtLowTocOffset => result.st = "err"
    /\ EndedAtLowDataOffset => result.st = "err"

\* ------------------------------------------------------------------------
\* C24: the TOC entries read are exactly number_of_records entries of 12
\* bytes, starting right after the 12-byte TOC body, whatever the data
\* length of the TOC header is (below, equal to or above 12 times the
\* number of records); the decoded record does not depend on the data
\* length.
\* ------------------------------------------------------------------------

\* where the TOC header of a blob begins, from its bytes
TocStart(blob) == min_bookmark_size + RawTocOffset(blob)[2]

\* the TOC header and body lie inside the blob
TocLocated(blob) ==
    /\ LooksLikeBookmark(blob)
    /\ Len(blob) >= min_bookmark_size + SizeU32
    /\ RawTocOffset(blob)[1] = 0
    /\ RawTocOffset(blob)[2] >= toc_offset_size
    /\ Len(blob) >= TocStart(blob) + 2 * SizeU32 + 3 * SizeU32

RawDataLength(blob) == le_u32(SubSeq(blob, TocStart(blob) + 1, TocStart(blob) + 4))

RawNumberOfRecords(blob) == le_u32(SubSeq(blob, TocStart(blob) + 17, TocStart(blob) + 20))

\* the k-th run of 12 bytes after the TOC body
RawTocRecord(blob, k) ==
    LET at == TocStart(blob) + 20 + record_size * (k - 1)
    IN  [record_type |-> le_u32(SubSeq(blob, at + 1, at + 4)),
         data_offset |-> le_u32(SubSeq(blob, at + 5, at + 8)),
         reserved |-> le_u32(SubSeq(blob, at + 9, at + 12))]

\* the blob with another data length in its TOC header
WithDataLength(blob, dl) ==
    SubSeq(blob, 1, TocStart(blob)) \o dl \o SubSeq(blob, TocStart(blob) + 5, Len(blob))

\* the data lengths tried for a blob: none, below, equal to and above 12 times
\* the number of records it declares, and the largest u32
DataLengthsOf(blob) ==
    LET n == RawNumberOfRecords(blob)
    IN  DataLengthsFor(IF n[1] = 0 /\ n[2] <= MaxToc + 1 THEN n[2] ELSE 1)

C24_DataLengthIrrelevant ==
    /\ pc = "record" =>
           LET blob == loginitems_data[idx]
           IN  /\ RawNumberOfRecords(blob)[1] = 0
               /\ Len(toc_records) = RawNumberOfRecords(blob)[2]
               /\ \A k \in 1..Len(toc_records) : toc_records[k] = RawTocRecord(blob, k)
    /\ (AtCandidate /\ TocLocated(loginitems_data[idx])) =>
           \A blob \in {loginitems_data[idx]} : \A decoded \in {Decode(blob)} :
               \A dl \in DataLengthsOf(blob) : Decode(WithDataLength(blob, dl)) = decoded

\* two entries were read from a blob whose TOC header declares 8 bytes less
\* than the 24 they take
C24_Witness ==
    /\ pc = "record"
    /\ Len(toc_records) = 2
    /\ rec_i = 2
    /\ login_items_data # NewLoginItemsData
    /\ RawDataLength(loginitems_data[idx]) = U32(2 * record_size - 2 * SizeU32)

\* ------------------------------------------------------------------------
\* C25: for an array record whose payload is 4k bytes, k >= 1,
\* bookmark_array returns the k offsets in payload order, and under keys
\* 0x1004 and 0x1005 the decoder appends the k resolved elements to path and
\* cnid_path in that order; the number of elements is the payload length
\* divided by 4, without a count in front.
\* ------------------------------------------------------------------------

\* an 8-byte number at the offset, from the bytes of the heap
NumberEightAt(core, o) ==
    /\ WellFormedAt(core, o)
    /\ RawTypeAt(core, o) = U32(NUMBER_EIGHT_BYTE)
    /\ Len(RawPayloadAt(core, o)) = SizeU64

\* the little-endian number of an 8-byte payload, most significant byte first
RawNumberEight(payload) == [j \in 1..SizeU64 |-> payload[SizeU64 + 1 - j]]

\* the TOC entry at rec_i refers to an array of k >= 1 offsets
AtArrayEntry ==
    /\ AtRecord
    /\ ArrayAt(core_data, toc_records[rec_i])
    /\ Len(RawPayloadAt(core_data, toc_records[rec_i].data_offset)) >= SizeU32
    /\ Len(RawPayloadAt(core_data, toc_records[rec_i].data_offset)) % SizeU32 = 0

C25_ArrayElementsInOrder ==
    [][AtArrayEntry =>
           LET rec == toc_records[rec_i]
               payload == RawPayloadAt(core_data, rec.data_offset)
               elements == ElementsAt(core_data, rec)
           IN  /\ Len(elements) = Len(payload) \div SizeU32
               /\ bookmark_array(payload) = [st |-> "ok", val |-> elements]
               /\ (/\ rec.record_type = U32(TARGET_PATH)
                   /\ \A k \in 1..Len(elements) : ValidStringAt(core_data, elements[k]))
                  => login_items_data' =
                         [login_items_data EXCEPT !.path =
                              @ \o [k \in 1..Len(elements) |->
                                        RawPayloadAt(core_data, elements[k])]]
               /\ (/\ rec.record_type = U32(TARGET_CNID_PATH)
                   /\ \A k \in 1..Len(elements) : NumberEightAt(core_data, elements[k]))
                  => login_items_data' =
                         [login_items_data EXCEPT !.cnid_path =
                              @ \o [k \in 1..Len(elements) |->
                                        RawNumberEight(RawPayloadAt(core_data, elements[k]))]]
      ]_vars

\* both arrays of two different elements have been appended
C25_Witness ==
    /\ pc = "record"
    /\ rec_i = 3
    /\ toc_records[1].record_type = U32(TARGET_PATH)
    /\ toc_records[2].record_type = U32(TARGET_CNID_PATH)
    /\ Len(login_items_data.path) = 2
    /\ login_items_data.path[1] # login_items_data.path[2]
    /\ Len(login_items_data.cnid_path) = 2
    /\ login_items_data.cnid_path[1] # login_items_data.cnid_path[2]

\* ------------------------------------------------------------------------
\* C26: array resolution is one level deep: the decoder follows the offsets
\* of an array record once, and an element that is itself an array record,
\* or that refers back to its own array, is not resolved further, so
\* decoding neither recurses nor loops through nested or cyclic arrays.
\* ------------------------------------------------------------------------

\* the 8-byte numbers among the elements, in order
ValidCnids(core, elements) ==
    LET kept == SelectSeq(elements,
                    LAMBDA e : /\ WellFormedAt(core, e)
                               /\ RawTypeAt(core, e) = U32(NUMBER_EIGHT_BYTE)
                               /\ Len(RawPayloadAt(core, e)) >= SizeU64)
    IN  [k \in 1..Len(kept) |-> RawNumberEight(RawPayloadAt(core, kept[k]))]

\* the TOC entry at rec_i refers to an array whose elements all lie in the
\* heap, one of them an array record
AtNestedArray ==
    /\ AtArrayEntry
    /\ ElementsResolve(core_data, toc_records[rec_i].data_offset)
    /\ \E k \in 1..Len(ElementsAt(core_data, toc_records[rec_i])) :
           RawTypeAt(core_data, ElementsAt(core_data, toc_records[rec_i])[k]) = U32(ARRAY_TYPE)

\* the array at rec_i has itself among its elements
AtCyclicArray ==
    /\ AtNestedArray
    /\ \E k \in 1..Len(ElementsAt(core_data, toc_records[rec_i])) :
           ElementsAt(core_data, toc_records[rec_i])[k] = toc_records[rec_i].data_offset

C26_ArraysOneLevelDeep ==
    [][AtNestedArray =>
           LET rec == toc_records[rec_i]
               elements == ElementsAt(core_data, rec)
           IN  /\ pc' = "record"
               /\ rec_i' = rec_i + 1
               /\ result' = NoResult
               /\ login_items_data' =
                      IF rec.record_type = U32(TARGET_PATH)
                      THEN [login_items_data EXCEPT !.path =
                                @ \o ValidPathStrings(core_data, elements)]
                      ELSE IF rec.record_type = U32(TARGET_CNID_PATH)
                      THEN [login_items_data EXCEPT !.cnid_path =
                                @ \o ValidCnids(core_data, elements)]
                      ELSE login_items_data
      ]_vars

\* the entry before this one was an array with itself as an element, and the
\* one string beside it is all the path has
C26_Witness ==
    /\ pc = "record"
    /\ rec_i = 2
    /\ toc_records[1].record_type = U32(TARGET_PATH)
    /\ ArrayAt(core_data, toc_records[1])
    /\ \E k \in 1..Len(ElementsAt(core_data, toc_records[1])) :
           ElementsAt(core_data, toc_records[1])[k] = toc_records[1].data_offset
    /\ Len(login_items_data.path) = 1

\* ------------------------------------------------------------------------
\* C27: for keys 0x1010 and 0x2020 with a Data record, the flags field
\* receives the payload decoded as little-endian u64 values, at most three:
\* a payload of 8k bytes (k = 1, 2, 3) gives k flags in payload order, and a
\* payload of at most 24 bytes loses no complete 8-byte value it contains.
\* ------------------------------------------------------------------------

FlagsField == (TARGET_FLAGS :> "target_flags") @@ (VOLUME_FLAGS :> "volume_flag")

\* the complete 8-byte values of a payload, in order
RawFlags(payload) ==
    [k \in 1..(Len(payload) \div SizeU64) |->
         RawNumberEight(SubSeq(payload, SizeU64 * k - (SizeU64 - 1), SizeU64 * k))]

\* the TOC entry at rec_i is a flags key over a Data record of 8 to 24 bytes
AtFlagsEntry ==
    /\ AtRecord
    /\ toc_records[rec_i].record_type[1] = 0
    /\ toc_records[rec_i].record_type[2] \in DOMAIN FlagsField
    /\ WellFormedAt(core_data, toc_records[rec_i].data_offset)
    /\ RawTypeAt(core_data, toc_records[rec_i].data_offset) = U32(DATA_TYPE)
    /\ Len(RawPayloadAt(core_data, toc_records[rec_i].data_offset))
           \in SizeU64..(max_flag_size * SizeU64)

C27_FlagsFromPayload ==
    [][AtFlagsEntry =>
           LET rec == toc_records[rec_i]
           IN  login_items_data' =
                   [login_items_data EXCEPT ![FlagsField[rec.record_type[2]]] =
                        RawFlags(RawPayloadAt(core_data, rec.data_offset))]
      ]_vars

\* ------------------------------------------------------------------------
\* C28: processing one TOC entry changes at most the one field of the record
\* that the entry's key names and leaves every other field as it was; an
\* entry whose key is not a mapped key changes no field.
\* ------------------------------------------------------------------------

\* the field each mapped key names
KeyField ==
    (TARGET_PATH :> "path") @@ (TARGET_CNID_PATH :> "cnid_path")
    @@ (TARGET_FLAGS :> "target_flags") @@ (TARGET_CREATION_DATE :> "creation")
    @@ (VOLUME_PATH :> "volume_path") @@ (VOLUME_URL :> "volume_url")
    @@ (VOLUME_NAME :> "volume_name") @@ (VOLUME_UUID :> "volume_uuid")
    @@ (VOLUME_SIZE :> "volume_size") @@ (VOLUME_CREATION :> "volume_creation")
    @@ (VOLUME_FLAGS :> "volume_flag") @@ (VOLUME_ROOT :> "volume_root")
    @@ (LOCALIZED_NAME :> "localized_name") @@ (SECURITY_EXTENSION :> "security_extension")
    @@ (CREATOR_USERNAME :> "username") @@ (CONTAIN_FOLDER_INDEX :> "folder_index")
    @@ (CREATOR_UID :> "uid") @@ (CREATION_OPTIONS :> "creation_options")

\* the key names the field
Names(key, field) == key[1] = 0 /\ key[2] \in DOMAIN KeyField /\ KeyField[key[2]] = field

C28_OneFieldPerEntry ==
    [][AtRecord =>
           \A field \in DOMAIN login_items_data :
               ~Names(toc_records[rec_i].record_type, field)
               => login_items_data'[field] = login_items_data[field]
      ]_vars

\* a volume name was set by the first entry and the second entry, whose key
\* is not mapped, left the record as it was
C28_Witness ==
    /\ pc = "record"
    /\ rec_i = 3
    /\ toc_records[1].record_type = U32(VOLUME_NAME)
    /\ toc_records[2].record_type = U32(VOLUME_ROOT + 1)
    /\ login_items_data.volume_name # <<>>
    /\ login_items_data = [NewLoginItemsData EXCEPT !.volume_name = login_items_data.volume_name]

\* ------------------------------------------------------------------------
\* C29: decoding terminates for every blob: the loop over the TOC entries
\* stops after number_of_records iterations or at the first short read, the
\* loops over array offsets and flags consume 4 and 8 bytes per iteration
\* and stop when the payload is used up or has no full element left, so
\* every call comes to its end.
\* ------------------------------------------------------------------------

\* the iterations of the array and flag loops over a payload are bounded by
\* its length
LoopsBounded(payload) ==
    /\ bookmark_array(payload).st = "ok"
       => SizeU32 * Len(bookmark_array(payload).val) = Len(payload)
    /\ bookmark_array(payload).st # "ok" => Len(payload) % SizeU32 # 0 \/ payload = <<>>
    /\ bookmark_target_flags(payload).st = "ok"
       => /\ SizeU64 * Len(bookmark_target_flags(payload).val) <= Len(payload)
          /\ Len(bookmark_target_flags(payload).val) \in 1..max_flag_size
    /\ bookmark_target_flags(payload).st # "ok" => Len(payload) < max_flag_size * SizeU64

\* what is left to do, as a pair ordered by its first and then its second
\* element: the candidates not yet done, and the TOC records not yet done of
\* the candidate being decoded
Rank ==
    IF pc = "start"
    THEN <<2 * (IF get_bookmarks(file).st = "ok" THEN Len(get_bookmarks(file).val) ELSE 0) + 2,
           0>>
    ELSE IF pc = "header" THEN <<2 * (Len(loginitems_data) - idx + 1) + 1, 0>>
    ELSE IF pc = "record"
    THEN <<2 * (Len(loginitems_data) - idx + 1), Len(toc_records) - rec_i + 1>>
    ELSE <<0, 0>>

RankOk == Rank[1] \in Nat /\ Rank[2] \in Nat

Less(r, s) == r[1] < s[1] \/ (r[1] = s[1] /\ r[2] < s[2])

\* wherever the call has not ended, one of its steps can be taken
CanStep ==
    \/ pc = "start" /\ get_bookmarks(file).st \in {"ok", "err"}
    \/ pc = "header" /\ idx = Len(loginitems_data) + 1
    \/ AtCandidate /\ bookmark_header(loginitems_data[idx]).st = "err"
    \/ AtCandidate /\ bookmark_header(loginitems_data[idx]).st = "ok"
                   /\ ~IsBookmark(bookmark_header(loginitems_data[idx]).val)
    \/ PassesHeader /\ CurrentToc.st \in {"ok", "err", "panic"}
    \/ pc = "record" /\ rec_i = Len(toc_records) + 1
    \/ AtRecord /\ CurrentRecord.st \in {"ok", "err", "panic"}

C29_DecodingTerminates ==
    /\ [](RankOk /\ (Done \/ CanStep))
    /\ [][Less(Rank', Rank)]_vars
    /\ [](pc = "record" => Len(toc_records) = RawNumberOfRecords(loginitems_data[idx])[2])
    /\ []((AtRecord /\ WellFormedAt(core_data, toc_records[rec_i].data_offset))
          => LoopsBounded(RawPayloadAt(core_data, toc_records[rec_i].data_offset)))

\* the call has ended after the decode of two candidates, the first with two
\* arrays of two elements
C29_Witness ==
    /\ Done
    /\ result.st = "ok"
    /\ Len(loginitems_data) = 2
    /\ Len(result.results) = 2
    /\ Len(result.results[1].path) = 2
    /\ Len(result.results[1].cnid_path) = 2
    /\ result.results[2].volume_name # <<>>

\* ------------------------------------------------------------------------
\* C30: in parse_loginitems_system, when the decode of one user's
\* backgrounditems.btm fails, the scan returns that error at once: the
\* documents of earlier users are not returned, later users are not visited
\* and the registry is not read.
\* ------------------------------------------------------------------------

\* parse_loginitems has returned an error for the user at user_i
UserParseFailed == ParseReturned /\ result.st = "err"

C30_UserFailureAbortsScan ==
    /\ [][UserParseFailed =>
              /\ system_pc' = "done"
              /\ system_result'.st = "err"
              /\ system_result'.kind \in LoginItemErrorFrom(result.kind)
              /\ DOMAIN system_result' = {"st", "kind"}
              /\ user_i' = user_i
              /\ apps_pc' = "idle"
              /\ apps_result' = NoResult]_vars
    /\ []((SystemDone /\ users.readable /\ user_i <= Len(users.entries))
          => /\ system_result.st \in {"err", "panic"}
             /\ apps_pc = "idle"
             /\ apps_result = NoResult)

\* the file of the second of three users failed after the first user's
\* document was collected; the registry has entries and was not read
C30_Witness ==
    /\ SystemDone
    /\ system_result.st = "err"
    /\ users.readable
    /\ Len(users.entries) = 3
    /\ user_i = 2
    /\ result.st = "err"
    /\ Len(system_loginitems_data) = 1
    /\ system_loginitems_data[1].results # <<>>
    /\ apps_dir.readable
    /\ apps_dir.entries # <<>>
    /\ apps_pc = "idle"

====
